---- MODULE Spec2Model ----
(***************************************************************************)
(* Collector enrichment pipeline of AIfotoAPI: the router                  *)
(* (processCollectorItem), the two enrichment strategies (enrichWineItem   *)
(* with searchWine, enrichVinylItem with searchVinyl / getDetailedRelease  *)
(* / getReleasePricing) and the fan-out/fan-in of processCollectorItems.   *)
(*                                                                         *)
(* One call of processCollectorItems is modelled.  The synchronous part of *)
(* items.map(processCollectorItem) is one step (every task runs up to its  *)
(* first pending fetch); afterwards the provider responses of the          *)
(* individual tasks arrive in any order, one step each; Promise.all        *)
(* settles when every task has settled.  What each provider would answer   *)
(* for an item is fixed up front in `script`.                              *)
(*                                                                         *)
(* The handlers POST /process and POST /process-single are modelled from   *)
(* the validated request to the response: the coercion and merge of the    *)
(* caller's tags (mergeTagsWithSystem), the decoding of the model output   *)
(* (code fences, bracket extraction, JSON.parse), token accounting and     *)
(* warnings.  The request, and what the vision model will answer, are      *)
(* fixed up front in `req` and `response`.                                 *)
(***************************************************************************)
EXTENDS Integers, Sequences, FiniteSets, TLC

VARIABLES
    items,          \* argument of processCollectorItems
    script,         \* script[i]: what the providers answer for item i
    discogsCreds,   \* DISCOGS_API_KEY and DISCOGS_API_SECRET are both set
    task,           \* task[i]: the promise of processCollectorItem(items[i])
    batch,          \* state of the processCollectorItems promise
    enrichedItems,  \* value processCollectorItems resolved with
    waited,         \* waited[i]: seconds task i has been awaiting a silent provider
    req,            \* the request a handler is serving: its mode and its tags
    response,       \* what the vision model answers: output_text and usage
    stage,          \* position of the handler
    allTags,        \* the tags named in the prompt
    result,         \* value the vision function returned
    res,            \* the response sent
    io              \* the handler's clock, its calls to the outside and its sends

collectorVars == <<items, script, discogsCreds, task, batch, enrichedItems, waited>>
requestVars == <<req, response, stage, allTags, result, res, io>>
vars == <<collectorVars, requestVars>>

-----------------------------------------------------------------------------
(* JavaScript values *)

\* JS null of a string-valued field
NULL == "<null>"
\* a key that is not present on the object (reads as undefined)
ABSENT == "<absent>"
\* a value of type number where a string is expected (item_type: 5)
NUMBER == "<number>"
\* JS null / undefined of a number-valued field (year, price)
NullNum == -1

\* truthiness of a string-valued field: null, undefined and "" are falsy
TruthyStr(s) == s \notin {NULL, ABSENT, ""}
\* truthiness of a year-valued field: null, undefined and 0 are falsy
TruthyYear(y) == y > 0

\* collector_data: key not present / present with value null
AbsentData == [kind |-> "absent"]
NullData == [kind |-> "null"]

\* collector_details / vinyl_details key not present
NoDetails ==
    [present |-> FALSE, wine_name |-> ABSENT, winery |-> ABSENT,
     vintage |-> NullNum, artist |-> ABSENT, album |-> ABSENT,
     release_year |-> NullNum]

Details(wn, wy, vt, ar, al, ry) ==
    [present |-> TRUE, wine_name |-> wn, winery |-> wy, vintage |-> vt,
     artist |-> ar, album |-> al, release_year |-> ry]

\* the object {} : no key present
EmptyObject ==
    [nullish |-> FALSE, name |-> ABSENT, item_type |-> ABSENT, tags |-> <<>>,
     collector_details |-> NoDetails, vinyl_details |-> NoDetails,
     collector_category |-> ABSENT, collector_data |-> AbsentData,
     collector_warning |-> ABSENT]

\* the value null passed where an item object is expected
NullItem == [EmptyObject EXCEPT !.nullish = TRUE]

\* an item object as the vision model (or any caller) supplies it
Item(nm, ty, tg, cd, vd, cw) ==
    [EmptyObject EXCEPT !.name = nm, !.item_type = ty, !.tags = tg,
                        !.collector_details = cd, !.vinyl_details = vd,
                        !.collector_warning = cw]

\* {...item}: spreading null or undefined yields no keys
Spread(item) == IF item.nullish THEN EmptyObject ELSE item

\* keys of an item other than the three enrichment outcome keys
OriginalFields(o) ==
    <<o.name, o.item_type, o.tags, o.collector_details, o.vinyl_details>>

-----------------------------------------------------------------------------
(* The providers.  A script fixes what the provider answers for one item:    *)
(* search: outcome of the search request; year: the year carried by the top  *)
(* record of a match; detail, pricing: outcome of the Discogs follow-ups.    *)

SearchOutcomes == {"match", "empty", "badshape", "httperr", "throw", "timeout"}
\* a provider that accepts the request and never answers it
Silent == "silent"
FollowUpOutcomes == {"ok", "httperr", "throw"}

\* message of the error a rejected fetch carries
ErrorMessage(outcome) ==
    IF outcome = "timeout" THEN "network timeout" ELSE "fetch failed"

\* response of Vivino's search endpoint to request q
VivinoResponse(q, s) == [status |-> s.search, id |-> q.text, year |-> s.year]

\* response of the Discogs search endpoint to request q
DiscogsSearchResponse(q, s) ==
    [status |-> s.search, id |-> q.text, year |-> s.year]

\* response of the Discogs release endpoint for release id
DiscogsReleaseResponse(id, s) ==
    [status |-> s.detail, id |-> id, year |-> s.year]

\* response of the Discogs marketplace statistics endpoint
DiscogsPricingResponse(id, s) == [status |-> s.pricing, id |-> id]

-----------------------------------------------------------------------------
(* vivinoService *)

\* `${winery}` : template conversion of a possibly missing string
TemplateStr(v) ==
    IF v = NULL THEN "null" ELSE IF v = ABSENT THEN "undefined" ELSE v

\* searchWine, up to the fetch: the request it sends
WineRequest(text, vintage) ==
    [provider |-> "vivino", text |-> text,
     year |-> IF TruthyYear(vintage) THEN vintage ELSE NullNum]

\* the keys of the wineData object literal
WineDataKeys ==
    {"vivino_url", "vivino_rating", "vivino_reviews_count", "winery", "vintage",
     "grape_variety", "region", "country", "food_pairing", "wine_type",
     "image_url", "price_estimate", "price_currency"}

\* the wineData record preferring the vintage passed in over the record's year
WineDataOwnVintageFirst(resp, vintage) ==
    [kind |-> "wine", keys |-> WineDataKeys,
     vivino_url |-> resp.id,
     vintage |-> IF TruthyYear(vintage) THEN vintage
                 ELSE IF TruthyYear(resp.year) THEN resp.year ELSE NullNum]

\* searchWine: the wineData record built from the top record
WineData(resp, vintage) ==
    [kind |-> "wine", keys |-> WineDataKeys,
     vivino_url |-> resp.id,
     vintage |-> IF TruthyYear(resp.year) THEN resp.year
                 ELSE IF TruthyYear(vintage) THEN vintage ELSE NullNum]

\* searchWine, from the fetch on: every failure is logged and becomes null
SearchWineReturn(resp, vintage) ==
    CASE resp.status \in {"throw", "timeout"} ->
             [threw |-> FALSE, message |-> "", data |-> NullData]
      [] resp.status = "httperr" ->
             [threw |-> FALSE, message |-> "", data |-> NullData]
      [] resp.status \in {"empty", "badshape"} ->
             [threw |-> FALSE, message |-> "", data |-> NullData]
      [] OTHER ->
             [threw |-> FALSE, message |-> "", data |-> WineData(resp, vintage)]

\* enrichWineItem: guard on the details extracted by the vision model
HasWineDetails(item) ==
    item.collector_details.present /\ TruthyStr(item.collector_details.wine_name)

\* enrichWineItem: const searchQuery = wine_name || `${winery}`
WineSearchText(item) ==
    IF TruthyStr(item.collector_details.wine_name)
    THEN item.collector_details.wine_name
    ELSE TemplateStr(item.collector_details.winery)

WineInsufficient(item) ==
    [Spread(item) EXCEPT !.collector_category = "wine",
                         !.collector_data = NullData,
                         !.collector_warning = "Insufficient wine details for enrichment"]

\* the not-found branch without its warning
WineNotFoundSilent(item) ==
    [Spread(item) EXCEPT !.collector_category = "wine",
                         !.collector_data = NullData]

WineNotFound(item) ==
    [Spread(item) EXCEPT !.collector_category = "wine",
                         !.collector_data = NullData,
                         !.collector_warning = "Wine not found on Vivino"]

WineEnriched(item, data) ==
    [Spread(item) EXCEPT !.collector_category = "wine",
                         !.collector_data = data]

WineApiError(item, message) ==
    [Spread(item) EXCEPT !.collector_category = "wine",
                         !.collector_data = NullData,
                         !.collector_warning = "Vivino API error: " \o message]

-----------------------------------------------------------------------------
(* discogsService *)

\* searchVinyl, up to the fetch: the request it sends
VinylRequest(artist, album, releaseYear) ==
    [provider |-> "discogs",
     text |-> TemplateStr(artist) \o " - " \o TemplateStr(album),
     year |-> IF TruthyYear(releaseYear) THEN releaseYear ELSE NullNum]

\* searchVinyl: the search response yields a top result
SearchHasTopResult(resp) == resp.status = "match"

\* the keys of the object literal formatSearchResult returns
SearchResultKeys ==
    {"discogs_url", "discogs_id", "artist", "album", "release_year", "label",
     "catalog_number", "genres", "styles", "format", "country", "image_url",
     "discogs_avg_price", "discogs_currency"}

\* the keys getDetailedRelease writes itself, before it spreads the pricing
ReleaseKeys ==
    {"discogs_url", "discogs_id", "artist", "album", "release_year", "label",
     "catalog_number", "genres", "styles", "format", "country", "tracklist",
     "discogs_rating", "discogs_votes", "discogs_have", "discogs_want",
     "image_url"}

\* the keys of the object getReleasePricing returns when the lookup fails
NullPricingKeys ==
    {"discogs_avg_price", "discogs_min_price", "discogs_max_price",
     "discogs_currency"}

\* a search-result record carrying every key of the detail record
FormatSearchResultFullyKeyed(top) ==
    [kind |-> "vinyl", shape |-> "search",
     keys |-> ReleaseKeys \cup NullPricingKeys \cup {"discogs_num_for_sale"},
     discogs_id |-> top.id,
     release_year |-> IF TruthyYear(top.year) THEN top.year ELSE NullNum,
     discogs_avg_price |-> NullNum]

\* formatSearchResult: the coarser record built from the top search result
FormatSearchResult(top) ==
    [kind |-> "vinyl", shape |-> "search", keys |-> SearchResultKeys,
     discogs_id |-> top.id,
     release_year |-> IF TruthyYear(top.year) THEN top.year ELSE NullNum,
     discogs_avg_price |-> NullNum]

\* getReleasePricing: prices, or null prices when the lookup fails
ReleasePricing(resp) ==
    IF resp.status = "ok"
    THEN [discogs_avg_price |-> 25, num_for_sale |-> TRUE,
          keys |-> NullPricingKeys \cup {"discogs_num_for_sale"}]
    ELSE [discogs_avg_price |-> NullNum, num_for_sale |-> FALSE,
          keys |-> NullPricingKeys]

\* getDetailedRelease: the vinylData record built from release and pricing
DetailedRelease(release, pricing) ==
    [kind |-> "vinyl", shape |-> "detail",
     keys |-> ReleaseKeys \cup pricing.keys,
     discogs_id |-> release.id,
     release_year |-> IF TruthyYear(release.year) THEN release.year ELSE NullNum,
     discogs_avg_price |-> pricing.discogs_avg_price]

VinylInsufficient(item) ==
    [Spread(item) EXCEPT !.collector_category = "vinyl",
                         !.collector_data = NullData,
                         !.collector_warning = "Insufficient vinyl details for enrichment"]

VinylNotFound(item) ==
    [Spread(item) EXCEPT !.collector_category = "vinyl",
                         !.collector_data = NullData,
                         !.collector_warning = "Vinyl not found on Discogs"]

VinylEnriched(item, data) ==
    [Spread(item) EXCEPT !.collector_category = "vinyl",
                         !.collector_data = data]

-----------------------------------------------------------------------------
(* tagMatcher *)

SYSTEM_TAGS ==
    [wine |-> <<"wine", "wijn", "vin", "vino", "wein">>,
     vinyl |-> <<"vinyl", "plaat", "lp", "record", "album", "schijf">>]

\* String.prototype.toLowerCase on the tags the model draws from
ToLowerCase(tag) ==
    CASE tag \in {"Wine", "WINE"} -> "wine"
      [] tag = "LP" -> "lp"
      [] tag \in {"Books", "BOOKS"} -> "books"
      [] OTHER -> tag

hasEnrichableTag(tags, category) ==
    \E k \in 1..Len(tags) :
        \E j \in 1..Len(SYSTEM_TAGS[category]) :
            SYSTEM_TAGS[category][j] = ToLowerCase(tags[k])

getEnrichmentType(tags) ==
    IF hasEnrichableTag(tags, "wine") THEN "wine"
    ELSE IF hasEnrichableTag(tags, "vinyl") THEN "vinyl"
    ELSE "none"

-----------------------------------------------------------------------------
(* Tasks: the promise of one processCollectorItem call.                      *)
(* pc: "search" / "detail" / "pricing" = suspended on that provider request, *)
(* "resolved" / "rejected" = settled.                                        *)

NoRequest == [provider |-> "none", text |-> "", year |-> NullNum]
NoResult == [EmptyObject EXCEPT !.name = "<unsettled>"]

\* the task settles with value r
Resolved(strat, ncalls, q, r) ==
    [pc |-> "resolved", strategy |-> strat, calls |-> ncalls, query |-> q,
     held |-> NullData, result |-> r]

\* the task settles with an exception
Rejected(strat, ncalls, q) ==
    [pc |-> "rejected", strategy |-> strat, calls |-> ncalls, query |-> q,
     held |-> NullData, result |-> NoResult]

\* the task is suspended on a request it has just issued
Awaiting(at, strat, ncalls, q, h) ==
    [pc |-> at, strategy |-> strat, calls |-> ncalls, query |-> q,
     held |-> h, result |-> NoResult]

-----------------------------------------------------------------------------
(* enrichWineItem *)

\* enrichWineItem up to `await searchWine(...)`
EnrichWineItemStart(item) ==
    IF ~HasWineDetails(item)
    THEN Resolved("wine", 0, NoRequest, WineInsufficient(item))
    ELSE Awaiting("search", "wine", 1,
                  WineRequest(WineSearchText(item), item.collector_details.vintage),
                  NullData)

\* enrichWineItem from the return of searchWine on
EnrichWineItemResume(item, t, resp) ==
    LET r == SearchWineReturn(resp, item.collector_details.vintage) IN
    IF r.threw
    THEN Resolved("wine", t.calls, t.query, WineApiError(item, r.message))
    ELSE IF r.data = NullData
    THEN Resolved("wine", t.calls, t.query, WineNotFound(item))
    ELSE Resolved("wine", t.calls, t.query, WineEnriched(item, r.data))

-----------------------------------------------------------------------------
(* enrichVinylItem *)

\* enrichVinylItem: guard on the details it reads
HasVinylDetails(item) == item.vinyl_details.present

\* enrichVinylItem up to the first fetch of searchVinyl
EnrichVinylItemStart(item, creds) ==
    IF ~HasVinylDetails(item)
    THEN Resolved("vinyl", 0, NoRequest, VinylInsufficient(item))
    ELSE IF ~creds
    THEN Resolved("vinyl", 0, NoRequest, VinylNotFound(item))
    ELSE Awaiting("search", "vinyl", 1,
                  VinylRequest(item.vinyl_details.artist, item.vinyl_details.album,
                               item.vinyl_details.release_year),
                  NullData)

\* searchVinyl from the search response on, up to the fetch of getDetailedRelease
SearchVinylResume(item, t, resp) ==
    IF SearchHasTopResult(resp)
    THEN Awaiting("detail", "vinyl", t.calls + 1, t.query,
                  [kind |-> "top", id |-> resp.id, year |-> resp.year])
    ELSE Resolved("vinyl", t.calls, t.query, VinylNotFound(item))

\* searchVinyl giving the item up when the release lookup fails
DetailedReleaseResumeNoFallback(item, t, resp) ==
    IF resp.status = "ok"
    THEN Awaiting("pricing", "vinyl", t.calls + 1, t.query,
                  [kind |-> "release", id |-> resp.id, year |-> resp.year])
    ELSE Resolved("vinyl", t.calls, t.query, VinylNotFound(item))

\* getDetailedRelease asking for the release once more after a failed lookup
DetailedReleaseResumeRetrying(item, t, resp) ==
    IF resp.status = "ok"
    THEN Awaiting("pricing", "vinyl", t.calls + 1, t.query,
                  [kind |-> "release", id |-> resp.id, year |-> resp.year])
    ELSE IF t.calls < 3
    THEN Awaiting("detail", "vinyl", t.calls + 1, t.query, t.held)
    ELSE Resolved("vinyl", t.calls, t.query,
                  VinylEnriched(item, FormatSearchResult(t.held)))

\* getDetailedRelease from its response on, up to the fetch of getReleasePricing;
\* on failure searchVinyl falls back to formatSearchResult(topResult)
DetailedReleaseResume(item, t, resp) ==
    IF resp.status = "ok"
    THEN Awaiting("pricing", "vinyl", t.calls + 1, t.query,
                  [kind |-> "release", id |-> resp.id, year |-> resp.year])
    ELSE Resolved("vinyl", t.calls, t.query,
                  VinylEnriched(item, FormatSearchResult(t.held)))

\* getReleasePricing from its response on, then the return of getDetailedRelease,
\* searchVinyl and enrichVinylItem
ReleasePricingResume(item, t, resp) ==
    Resolved("vinyl", t.calls, t.query,
             VinylEnriched(item, DetailedRelease(t.held, ReleasePricing(resp))))

-----------------------------------------------------------------------------
(* collectorService *)

\* routing on the tags of the item instead of its item_type
RouteByTags(item) == getEnrichmentType(item.tags)

\* processCollectorItem: switch (item.item_type)
Route(item) ==
    CASE item.item_type = "wine" -> "wine"
      [] item.item_type = "vinyl" -> "vinyl"
      [] OTHER -> "none"

\* the default branch writing a null collector_data as the strategies do
NoEnrichmentNullData(item) ==
    [Spread(item) EXCEPT !.collector_category = NULL,
                         !.collector_data = NullData]

\* the default branch flagging the item as not enriched
NoEnrichmentWarned(item) ==
    [Spread(item) EXCEPT !.collector_category = NULL,
                         !.collector_warning = "Not a collector item"]

\* processCollectorItem: the default branch
NoEnrichment(item) == [Spread(item) EXCEPT !.collector_category = NULL]

\* processCollectorItem: the catch block
CatchProcessing(item, message) ==
    Resolved("none", 0, NoRequest,
             [Spread(item) EXCEPT !.collector_category = NULL,
                                  !.collector_warning = "Failed to enrich item: " \o message])

\* processCollectorItem up to its first pending fetch
ProcessCollectorItemStart(item, creds) ==
    IF item.nullish
    THEN CatchProcessing(item, "Cannot read properties of null (reading 'item_type')")
    ELSE CASE Route(item) = "wine" -> EnrichWineItemStart(item)
           [] Route(item) = "vinyl" -> EnrichVinylItemStart(item, creds)
           [] OTHER -> Resolved("none", 0, NoRequest, NoEnrichment(item))

\* Promise.all: rejects as soon as one task rejects, resolves with the values in
\* the order of the tasks once every task has resolved
PromiseAllState(tasks) ==
    IF \E i \in 1..Len(tasks) : tasks[i].pc = "rejected" THEN "rejected"
    ELSE IF \A i \in 1..Len(tasks) : tasks[i].pc = "resolved" THEN "returned"
    ELSE "pending"

\* the values in reverse order of the tasks
PromiseAllValueReversed(tasks) ==
    [i \in 1..Len(tasks) |-> tasks[Len(tasks) + 1 - i].result]

PromiseAllValue(tasks) == [i \in 1..Len(tasks) |-> tasks[i].result]

\* a task that settles without provider data abandons the pending siblings
SettleFailFast(tasks, i, t) ==
    [j \in 1..Len(tasks) |->
        IF j = i THEN t
        ELSE IF t.pc = "resolved" /\ t.result.collector_data = NullData
                /\ tasks[j].pc \in {"search", "detail", "pricing"}
        THEN Rejected(tasks[j].strategy, tasks[j].calls, tasks[j].query)
        ELSE tasks[j]]

\* task i settles or suspends again; the other tasks are not touched
Settle(tasks, i, t) == [tasks EXCEPT ![i] = t]

-----------------------------------------------------------------------------
(* Inputs *)

\* largest batch handed to processCollectorItems
MaxItems == 2

Script(search, year, detail, pricing) ==
    [search |-> search, year |-> year, detail |-> detail, pricing |-> pricing]

\* every provider behaviour: a failing search, or a match whose top record
\* carries no year, the item's year or another year, followed by the Discogs
\* follow-ups (a failed detail lookup is not followed by a pricing lookup)
Scripts ==
    {Script(o, NullNum, "ok", "ok") : o \in SearchOutcomes \ {"match"}}
    \cup {Script("match", y, d, "ok") :
              y \in {NullNum, 2015, 2016}, d \in FollowUpOutcomes \ {"ok"}}
    \cup {Script("match", y, "ok", p) :
              y \in {NullNum, 2015, 2016}, p \in FollowUpOutcomes}

ItemTypes == {"wine", "vinyl", "general", "Wine", "cd", ABSENT, NUMBER}
TagLists == {<<>>, <<"wine">>, <<"LP">>}

WineDetails ==
    {Details("Margaux", "Chateau Margaux", v, NULL, NULL, NullNum) :
         v \in {NullNum, 0, 2015}}
    \cup {Details(wn, "Chateau Margaux", 2015, NULL, NULL, NullNum) :
              wn \in {NULL, ""}}

VinylDetails == Details(NULL, NULL, NullNum, "Pink Floyd", "Dark Side", 1973)

\* collector_details as the response schema allows it, or missing
CollectorDetails ==
    WineDetails
    \cup {VinylDetails, NoDetails,
          Details(NULL, NULL, NullNum, NULL, NULL, NullNum)}

\* the legacy vinyl_details key: missing, empty or filled
LegacyVinylDetails ==
    {NoDetails,
     Details(ABSENT, ABSENT, NullNum, ABSENT, ABSENT, NullNum),
     Details(ABSENT, ABSENT, NullNum, "Pink Floyd", "Dark Side", 1973)}

\* every argument of one processCollectorItem call
ItemInputs ==
    {NullItem}
    \cup {Item("item", ty, tg, cd, vd, cw) :
              ty \in ItemTypes, tg \in TagLists, cd \in CollectorDetails,
              vd \in LegacyVinylDetails, cw \in {ABSENT, "stale warning"}}

\* the items of a batch
BatchInputs ==
    {NullItem,
     Item("bottle", "wine", <<"wine">>,
          Details("Margaux", "Chateau Margaux", 2015, NULL, NULL, NullNum),
          NoDetails, ABSENT),
     Item("record", "vinyl", <<"LP">>, VinylDetails,
          Details(ABSENT, ABSENT, NullNum, "Pink Floyd", "Dark Side", 1973),
          ABSENT),
     Item("sleeve", "vinyl", <<>>, VinylDetails, NoDetails, ABSENT),
     Item("laptop", "general", <<"wine">>,
          Details(NULL, NULL, NullNum, NULL, NULL, NullNum), NoDetails, ABSENT)}

BatchScripts ==
    {Script("match", 2016, "ok", "ok"),
     Script("match", NullNum, "httperr", "ok"),
     Script("match", 2016, "ok", "throw"),
     Script("empty", NullNum, "ok", "ok"),
     Script("throw", NullNum, "ok", "ok"),
     Script("timeout", NullNum, "ok", "ok")}

\* a task before processCollectorItems has been called
Unstarted == Awaiting("idle", "none", 0, NoRequest, NullData)

-----------------------------------------------------------------------------
(* State machine *)

\* no request is being served
RequestIdle ==
    /\ req = [mode |-> "none", tags |-> [kind |-> "absent", elems |-> <<>>]]
    /\ response = [output_text |-> <<>>, usage |-> <<>>]
    /\ stage = "idle"
    /\ allTags = <<>>
    /\ result = [items |-> <<>>]
    /\ res = [status |-> 0]
    /\ io = [startTime |-> 0, now |-> 0, downloads |-> 0, fetched |-> "nothing",
             visionCalls |-> 0, deletions |-> 0, responses |-> 0,
             deleteSuccess |-> FALSE]

InitWith(its, scs) ==
    /\ items = its
    /\ script = scs
    /\ discogsCreds \in BOOLEAN
    /\ task = [i \in 1..Len(its) |-> Unstarted]
    /\ batch = "idle"
    /\ enrichedItems = <<>>
    /\ waited = [i \in 1..Len(its) |-> 0]
    /\ RequestIdle

\* a batch of up to MaxItems items
Init ==
    \E n \in 0..MaxItems :
        \E its \in [1..n -> BatchInputs], scs \in [1..n -> BatchScripts] :
            InitWith(its, scs)

\* one item, any shape, any provider behaviour
InitItem ==
    \E it \in ItemInputs, sc \in Scripts : InitWith(<<it>>, <<sc>>)

\* processCollectorItems(items): the early return for an empty array, else the
\* synchronous part of items.map(item => processCollectorItem(item))
ProcessCollectorItems ==
    /\ batch = "idle"
    /\ IF Len(items) = 0
       THEN /\ batch' = "returned"
            /\ enrichedItems' = items
            /\ UNCHANGED task
       ELSE /\ batch' = "pending"
            /\ task' = [i \in 1..Len(items) |->
                            ProcessCollectorItemStart(items[i], discogsCreds)]
            /\ UNCHANGED enrichedItems
    /\ UNCHANGED <<items, script, discogsCreds, waited>>
    /\ UNCHANGED requestVars

\* the Vivino search request of task i completes
WineSearchResponds(i) ==
    /\ task[i].pc = "search"
    /\ task[i].strategy = "wine"
    /\ script[i].search # Silent
    /\ task' = Settle(task, i,
                      EnrichWineItemResume(items[i], task[i],
                                           VivinoResponse(task[i].query, script[i])))
    /\ UNCHANGED <<items, script, discogsCreds, batch, enrichedItems, waited>>
    /\ UNCHANGED requestVars

\* the Discogs search request of task i completes
VinylSearchResponds(i) ==
    /\ task[i].pc = "search"
    /\ task[i].strategy = "vinyl"
    /\ script[i].search # Silent
    /\ task' = Settle(task, i,
                      SearchVinylResume(items[i], task[i],
                                        DiscogsSearchResponse(task[i].query, script[i])))
    /\ UNCHANGED <<items, script, discogsCreds, batch, enrichedItems, waited>>
    /\ UNCHANGED requestVars

\* the Discogs release request of task i completes
DetailResponds(i) ==
    /\ task[i].pc = "detail"
    /\ task' = Settle(task, i,
                      DetailedReleaseResume(items[i], task[i],
                                            DiscogsReleaseResponse(task[i].held.id, script[i])))
    /\ UNCHANGED <<items, script, discogsCreds, batch, enrichedItems, waited>>
    /\ UNCHANGED requestVars

\* the Discogs marketplace request of task i completes
PricingResponds(i) ==
    /\ task[i].pc = "pricing"
    /\ task' = Settle(task, i,
                      ReleasePricingResume(items[i], task[i],
                                           DiscogsPricingResponse(task[i].held.id, script[i])))
    /\ UNCHANGED <<items, script, discogsCreds, batch, enrichedItems, waited>>
    /\ UNCHANGED requestVars

\* await Promise.all(...) completes and processCollectorItems returns
PromiseAllSettles ==
    /\ batch = "pending"
    /\ PromiseAllState(task) # "pending"
    /\ batch' = PromiseAllState(task)
    /\ enrichedItems' = IF PromiseAllState(task) = "returned"
                        THEN PromiseAllValue(task) ELSE <<>>
    /\ UNCHANGED <<items, script, discogsCreds, task, waited>>
    /\ UNCHANGED requestVars

Next ==
    \/ ProcessCollectorItems
    \/ \E i \in 1..Len(items) : WineSearchResponds(i)
    \/ \E i \in 1..Len(items) : VinylSearchResponds(i)
    \/ \E i \in 1..Len(items) : DetailResponds(i)
    \/ \E i \in 1..Len(items) : PricingResponds(i)
    \/ PromiseAllSettles

\* processCollectorItems on a batch
Spec == Init /\ [][Next]_vars

-----------------------------------------------------------------------------
(* Providers that never answer.                                              *)
(* searchWine and searchVinyl pass `timeout: 5000` in the options of fetch.  *)
(* Neither service imports a fetch implementation, so fetch is the global of *)
(* Node 18+, whose options have no timeout member: the member is ignored, no *)
(* AbortSignal is passed and no timer is set. The await ends only if the     *)
(* runtime itself rejects the request, at a moment the code does not choose. *)

\* timeout: 5000, in seconds
TimeoutSeconds == 5

\* the clock is followed for MaxWait seconds
MaxWait == 6

HangInputs ==
    {Item("bottle", "wine", <<"wine">>,
          Details("Margaux", "Chateau Margaux", 2015, NULL, NULL, NullNum),
          NoDetails, ABSENT),
     Item("record", "vinyl", <<"LP">>, VinylDetails,
          Details(ABSENT, ABSENT, NullNum, "Pink Floyd", "Dark Side", 1973),
          ABSENT)}

HangScripts ==
    {Script(Silent, NullNum, "ok", "ok"),
     Script("match", 2016, "ok", "ok"),
     Script("throw", NullNum, "ok", "ok")}

\* a batch in which any provider search may stay unanswered
InitHang ==
    \E n \in 1..MaxItems :
        \E its \in [1..n -> HangInputs], scs \in [1..n -> HangScripts] :
            InitWith(its, scs)

\* one more second passes while the search request of task i is unanswered
Tick(i) ==
    /\ task[i].pc = "search"
    /\ script[i].search = Silent
    /\ waited[i] < MaxWait
    /\ waited' = [waited EXCEPT ![i] = waited[i] + 1]
    /\ UNCHANGED <<items, script, discogsCreds, task, batch, enrichedItems>>
    /\ UNCHANGED requestVars

\* the runtime gives the unanswered request up: fetch rejects, the catch of
\* searchWine / searchVinyl logs the error and returns null
FetchRejects(i) ==
    /\ task[i].pc = "search"
    /\ script[i].search = Silent
    /\ task' = Settle(task, i,
                      IF task[i].strategy = "wine"
                      THEN EnrichWineItemResume(items[i], task[i],
                               [VivinoResponse(task[i].query, script[i])
                                    EXCEPT !.status = "timeout"])
                      ELSE SearchVinylResume(items[i], task[i],
                               [DiscogsSearchResponse(task[i].query, script[i])
                                    EXCEPT !.status = "timeout"]))
    /\ UNCHANGED <<items, script, discogsCreds, batch, enrichedItems, waited>>
    /\ UNCHANGED requestVars

NextHang ==
    \/ Next
    \/ \E i \in 1..Len(items) : Tick(i)
    \/ \E i \in 1..Len(items) : FetchRejects(i)

\* processCollectorItems on a batch with providers that may never answer
SpecHang == InitHang /\ [][NextHang]_vars

\* processCollectorItem on one item
SpecItem == InitItem /\ [][Next]_vars

-----------------------------------------------------------------------------
(* Model output as text.                                                     *)
(* output_text is a sequence of tokens: a code fence, the language tag json, *)
(* white space, a prose word without brackets, the JSON punctuation, the     *)
(* keys "items": and "item": of the wrapper objects, and the members of one  *)
(* item object written as a single token.                                    *)

\* three backticks
Fence == "<fence>"
Lang == "json"
Ws == " "
Word == "text"

\* {...item, bbox: b}
WithBbox(item, b) ==
    [k \in DOMAIN item \cup {"bbox"} |-> IF k = "bbox" THEN b ELSE item[k]]

\* an item with its quantity and accuracy members, each written as the JSON
\* text of its value
WithCounts(item, quantity, accuracy) ==
    [k \in DOMAIN item \cup {"quantity", "accuracy"} |->
        CASE k = "quantity" -> quantity
          [] k = "accuracy" -> accuracy
          [] OTHER -> item[k]]

\* item?.bbox of a decoded item object
BboxOf(item) == IF "bbox" \in DOMAIN item THEN item.bbox ELSE ABSENT

\* the members of the item objects the model writes, and what they decode to
ItemBodies ==
    {"laptop", "laptop without name", "laptop without collector_details",
     "lamp", "lamp with bbox"}

\* the item objects written for the handlers: a wine bottle, a record, a
\* chair, and chairs whose quantity or accuracy is out of range
HandlerBodies ==
    {"bottle", "record", "chair", "chair, quantity 0", "chair, quantity 1.5",
     "chair, accuracy 1.5", "chair, accuracy high"}

ItemOf(body) ==
    CASE body = "laptop" ->
             Item("laptop", "general", <<>>,
                  Details(NULL, NULL, NullNum, NULL, NULL, NullNum),
                  NoDetails, ABSENT)
      [] body = "laptop without name" ->
             Item(ABSENT, "general", <<>>,
                  Details(NULL, NULL, NullNum, NULL, NULL, NullNum),
                  NoDetails, ABSENT)
      [] body = "laptop without collector_details" ->
             Item("laptop", "general", <<>>, NoDetails, NoDetails, ABSENT)
      [] body = "lamp" ->
             Item("lamp", ABSENT, <<>>, NoDetails, NoDetails, ABSENT)
      [] body = "lamp with bbox" ->
             WithBbox(Item("lamp", ABSENT, <<>>, NoDetails, NoDetails, ABSENT),
                      "box inside the image")
      [] body = "bottle" ->
             WithCounts(Item("bottle", "wine", <<"wine">>,
                             Details("Margaux", "Chateau Margaux", 2015,
                                     NULL, NULL, NullNum),
                             NoDetails, ABSENT), "1", "0.9")
      [] body = "record" ->
             WithCounts(Item("record", "vinyl", <<"LP">>, VinylDetails,
                             Details(ABSENT, ABSENT, NullNum,
                                     "Pink Floyd", "Dark Side", 1973),
                             ABSENT), "1", "1")
      [] body = "chair" ->
             WithCounts(Item("chair", "general", <<>>,
                             Details(NULL, NULL, NullNum, NULL, NULL, NullNum),
                             NoDetails, ABSENT), "3", "0")
      [] body = "chair, quantity 0" ->
             WithCounts(Item("chair", "general", <<>>,
                             Details(NULL, NULL, NullNum, NULL, NULL, NullNum),
                             NoDetails, ABSENT), "0", "0.9")
      [] body = "chair, quantity 1.5" ->
             WithCounts(Item("chair", "general", <<>>,
                             Details(NULL, NULL, NullNum, NULL, NULL, NullNum),
                             NoDetails, ABSENT), "1.5", "0.9")
      [] body = "chair, accuracy 1.5" ->
             WithCounts(Item("chair", "general", <<>>,
                             Details(NULL, NULL, NullNum, NULL, NULL, NullNum),
                             NoDetails, ABSENT), "1", "1.5")
      [] body = "chair, accuracy high" ->
             WithCounts(Item("chair", "general", <<>>,
                             Details(NULL, NULL, NullNum, NULL, NULL, NullNum),
                             NoDetails, ABSENT), "1", "\"high\"")

\* the values JSON.parse produces
JsonArray(elems) == [t |-> "array", elems |-> elems]
JsonItem(item) == [t |-> "object", key |-> "", item |-> item]
JsonWrapper(key, value) == [t |-> "object", key |-> key, value |-> value]

\* the outcome of a parsing step: a value and the position after it, or a
\* SyntaxError
Parsed(value, next) == [ok |-> TRUE, value |-> value, next |-> next]
SyntaxError == [ok |-> FALSE]

RECURSIVE SkipWs(_, _)
SkipWs(toks, p) ==
    IF p <= Len(toks) /\ toks[p] = Ws THEN SkipWs(toks, p + 1) ELSE p

\* toks has token tok at the first position after white space from p on
At(toks, p, tok) ==
    SkipWs(toks, p) <= Len(toks) /\ toks[SkipWs(toks, p)] = tok

RECURSIVE ParseValue(_, _), ParseElements(_, _, _)

\* the elements of an array from p on, the first of them after `[`, the next
\* ones after `,`
ParseElements(toks, p, acc) ==
    LET v == ParseValue(toks, p) IN
    IF ~v.ok THEN SyntaxError
    ELSE IF At(toks, v.next, ",")
    THEN ParseElements(toks, SkipWs(toks, v.next) + 1, Append(acc, v.value))
    ELSE IF At(toks, v.next, "]")
    THEN Parsed(JsonArray(Append(acc, v.value)), SkipWs(toks, v.next) + 1)
    ELSE SyntaxError

\* the members of an object, after `{`
ParseMembers(toks, p) ==
    LET q == SkipWs(toks, p) IN
    IF At(toks, p, "}") THEN Parsed(JsonItem(EmptyObject), q + 1)
    ELSE IF q <= Len(toks) /\ toks[q] \in ItemBodies \cup HandlerBodies
    THEN IF At(toks, q + 1, "}")
         THEN Parsed(JsonItem(ItemOf(toks[q])), SkipWs(toks, q + 1) + 1)
         ELSE SyntaxError
    ELSE IF q <= Len(toks) /\ toks[q] \in {"items:", "item:"}
    THEN LET v == ParseValue(toks, q + 1) IN
         IF v.ok /\ At(toks, v.next, "}")
         THEN Parsed(JsonWrapper(toks[q], v.value), SkipWs(toks, v.next) + 1)
         ELSE SyntaxError
    ELSE SyntaxError

ParseValue(toks, p) ==
    LET q == SkipWs(toks, p) IN
    IF At(toks, p, "[")
    THEN IF At(toks, q + 1, "]")
         THEN Parsed(JsonArray(<<>>), SkipWs(toks, q + 1) + 1)
         ELSE ParseElements(toks, q + 1, <<>>)
    ELSE IF At(toks, p, "{") THEN ParseMembers(toks, q + 1)
    ELSE SyntaxError

\* JSON.parse(text): one value and nothing but white space around it
JSONparse(toks) ==
    LET v == ParseValue(toks, 1) IN
    IF v.ok /\ SkipWs(toks, v.next) > Len(toks) THEN v ELSE SyntaxError

RECURSIVE TrimStart(_)
TrimStart(toks) ==
    IF toks # <<>> /\ Head(toks) = Ws THEN TrimStart(Tail(toks)) ELSE toks

RECURSIVE TrimEnd(_)
TrimEnd(toks) ==
    IF toks # <<>> /\ toks[Len(toks)] = Ws
    THEN TrimEnd(SubSeq(toks, 1, Len(toks) - 1)) ELSE toks

\* .replace(/^```json\s*/i, '')
StripJsonFence(toks) ==
    IF Len(toks) >= 2 /\ toks[1] = Fence /\ toks[2] = Lang
    THEN TrimStart(SubSeq(toks, 3, Len(toks))) ELSE toks

\* .replace(/^```\s*/i, '')
StripFence(toks) ==
    IF toks # <<>> /\ toks[1] = Fence THEN TrimStart(Tail(toks)) ELSE toks

\* .replace(/\s*```\s*$/i, '')
StripEndFence(toks) ==
    LET u == TrimEnd(toks) IN
    IF u # <<>> /\ u[Len(u)] = Fence
    THEN TrimEnd(SubSeq(u, 1, Len(u) - 1)) ELSE toks

\* contentClean
Clean(content) ==
    TrimEnd(TrimStart(StripEndFence(StripFence(StripJsonFence(content)))))

Positions(toks, tok) == {p \in 1..Len(toks) : toks[p] = tok}
Min(S) == CHOOSE x \in S : \A y \in S : x <= y
Max(S) == CHOOSE x \in S : \A y \in S : x >= y

\* text.match(/\[[\s\S]*\]/) and text.match(/\{[\s\S]*\}/): greedy, from the
\* first opening bracket to the last closing one; <<>> stands for no match
Match(toks, open, close) ==
    IF /\ Positions(toks, open) # {}
       /\ Positions(toks, close) # {}
       /\ Min(Positions(toks, open)) < Max(Positions(toks, close))
    THEN SubSeq(toks, Min(Positions(toks, open)), Max(Positions(toks, close)))
    ELSE <<>>

-----------------------------------------------------------------------------
(* tagMatcher: merging the caller's tags with the system vocabulary.         *)
(* A tags value is what the request body carries under `tags`: nothing, null,*)
(* a number, an object, a string (its elems are its characters) or an array  *)
(* (its elems are tag strings, NUMBER or NULL for an element of that type).  *)

TagsValue(kind, elems) == [kind |-> kind, elems |-> elems]

\* Object.values(SYSTEM_TAGS).flat()
getAllSystemTags == SYSTEM_TAGS.wine \o SYSTEM_TAGS.vinyl

\* tag.toLowerCase is a function: tag is a string
IsString(tag) == tag \notin {NUMBER, NULL}

\* the forEach of mergeTagsWithSystem keeping the last casing seen instead of
\* the first
RECURSIVE UniqueTagsLastSeen(_, _, _)
UniqueTagsLastSeen(tagList, lowerCaseSeen, uniqueTags) ==
    IF tagList = <<>> THEN uniqueTags
    ELSE LET tag == Head(tagList)
             lowerTag == ToLowerCase(tag)
         IN IF lowerTag \in lowerCaseSeen
            THEN UniqueTagsLastSeen(Tail(tagList), lowerCaseSeen,
                     [k \in 1..Len(uniqueTags) |->
                          IF ToLowerCase(uniqueTags[k]) = lowerTag
                          THEN tag ELSE uniqueTags[k]])
            ELSE UniqueTagsLastSeen(Tail(tagList), lowerCaseSeen \cup {lowerTag},
                                    Append(uniqueTags, tag))

\* the merge without its removal of duplicates
UniqueTagsKeepAll(tagList, lowerCaseSeen, uniqueTags) == uniqueTags \o tagList

\* the forEach of mergeTagsWithSystem over tags that are all strings
RECURSIVE UniqueTags(_, _, _)
UniqueTags(tagList, lowerCaseSeen, uniqueTags) ==
    IF tagList = <<>> THEN uniqueTags
    ELSE LET tag == Head(tagList)
             lowerTag == ToLowerCase(tag)
         IN IF lowerTag \in lowerCaseSeen
            THEN UniqueTags(Tail(tagList), lowerCaseSeen, uniqueTags)
            ELSE UniqueTags(Tail(tagList), lowerCaseSeen \cup {lowerTag},
                            Append(uniqueTags, tag))

\* the outcome of a call: a value, or an exception
Returns(value) == [threw |-> FALSE, value |-> value]
Throws(message) == [threw |-> TRUE, message |-> message]

\* mergeTagsWithSystem(userTags = []): the default applies to undefined only,
\* spreading null, a number or an object throws, a string spreads into its
\* characters, and an element without toLowerCase throws
mergeTagsWithSystem(userTags) ==
    CASE userTags.kind = "absent" ->
             Returns(UniqueTags(getAllSystemTags, {}, <<>>))
      [] userTags.kind \in {"null", "number", "object"} ->
             Throws("userTags is not iterable")
      [] OTHER ->
             IF \E k \in 1..Len(userTags.elems) : ~IsString(userTags.elems[k])
             THEN Throws("tag.toLowerCase is not a function")
             ELSE Returns(UniqueTags(getAllSystemTags \o userTags.elems, {}, <<>>))

\* const userTags = Array.isArray(tags) ? tags : []
CoerceTags(tags) ==
    IF tags.kind = "array" THEN tags ELSE TagsValue("array", <<>>)

-----------------------------------------------------------------------------
(* Token accounting.                                                         *)
(* A count the provider does not report is NullNum.                          *)

\* a || b on counts: undefined and 0 are falsy
Or(a, b) == IF a > 0 THEN a ELSE b

Usage(it, pt, ot, ct, tt) ==
    [input_tokens |-> it, prompt_tokens |-> pt, output_tokens |-> ot,
     completion_tokens |-> ct, total_tokens |-> tt]

\* response.usage || {}
NoUsage == Usage(NullNum, NullNum, NullNum, NullNum, NullNum)

\* token_usage with the total always derived from the two counts
TokenUsageSummed(tokenUsage) ==
    LET promptTokens == Or(tokenUsage.input_tokens, Or(tokenUsage.prompt_tokens, 0))
        completionTokens ==
            Or(tokenUsage.output_tokens, Or(tokenUsage.completion_tokens, 0))
    IN Usage(promptTokens, promptTokens, completionTokens, completionTokens,
             promptTokens + completionTokens)

\* promptTokens, completionTokens, totalTokens and the token_usage built of them
TokenUsage(tokenUsage) ==
    LET promptTokens == Or(tokenUsage.input_tokens, Or(tokenUsage.prompt_tokens, 0))
        completionTokens ==
            Or(tokenUsage.output_tokens, Or(tokenUsage.completion_tokens, 0))
        totalTokens ==
            Or(tokenUsage.total_tokens, promptTokens + completionTokens)
    IN Usage(promptTokens, promptTokens, completionTokens, completionTokens,
             totalTokens)

\* totalTokens > 15000
HighUsage == 15000

HighUsageWarning(totalTokens) ==
    [text |-> "High token usage", tokens |-> totalTokens]

\* the warning given from the threshold on instead of above it
WarningsFromThreshold(totalTokens) ==
    IF totalTokens >= HighUsage THEN <<HighUsageWarning(totalTokens)>> ELSE <<>>

\* warnings: totalTokens > 15000 ? [`High token usage: ...`] : []
Warnings(totalTokens) ==
    IF totalTokens > HighUsage THEN <<HighUsageWarning(totalTokens)>> ELSE <<>>

-----------------------------------------------------------------------------
(* The vision call: processImageWithOpenAI of the array-mode service         *)
(* ("array"), processImageWithOpenAI ("items") and                           *)
(* processSingleItemWithOpenAI ("single") of the current one.                *)

Modes == {"array", "items", "single"}

IsArray(v) == v.t = "array"
IsItemObject(v) == v.t = "object" /\ v.key = ""

\* normalizeBoundingBoxes: a value that is no array is returned as it is; an
\* item without a bbox object gets bbox: null, a box of integers inside the
\* image keeps its box
normalizeBoundingBoxes(rawItems) ==
    IF ~IsArray(rawItems) THEN rawItems
    ELSE JsonArray([k \in 1..Len(rawItems.elems) |->
             IF ~IsItemObject(rawItems.elems[k]) THEN rawItems.elems[k]
             ELSE JsonItem(WithBbox(rawItems.elems[k].item,
                      IF BboxOf(rawItems.elems[k].item) \in {ABSENT, NULL}
                      THEN NULL ELSE BboxOf(rawItems.elems[k].item)))])

\* Array.isArray(parsed?.items) ? parsed.items : [], keeping only the items
\* that carry a name
ItemsOfNamedOnly(parsed) ==
    IF parsed.t = "object" /\ parsed.key = "items:" /\ IsArray(parsed.value)
    THEN JsonArray(SelectSeq(parsed.value.elems,
                             LAMBDA v : IsItemObject(v) /\ v.item.name # ABSENT))
    ELSE JsonArray(<<>>)

\* Array.isArray(parsed?.items) ? parsed.items : []
ItemsOf(parsed) ==
    IF parsed.t = "object" /\ parsed.key = "items:" /\ IsArray(parsed.value)
    THEN parsed.value
    ELSE JsonArray(<<>>)

\* !parsed.item is false: the decoded value has an item member (objects and
\* arrays are truthy)
HasItem(parsed) == parsed.t = "object" /\ parsed.key = "item:"

\* the single-item mode without its check of the item member
ShapedUnchecked(mode, parsed) ==
    CASE mode = "array" -> Returns([items |-> normalizeBoundingBoxes(parsed)])
      [] mode = "items" -> Returns([items |-> ItemsOf(parsed)])
      [] mode = "single" ->
             Returns([item |-> IF HasItem(parsed) THEN parsed.value ELSE parsed])

\* what the function returns for a decoded value, before usage and warnings
Shaped(mode, parsed) ==
    CASE mode = "array" -> Returns([items |-> normalizeBoundingBoxes(parsed)])
      [] mode = "items" -> Returns([items |-> ItemsOf(parsed)])
      [] mode = "single" ->
             IF HasItem(parsed) THEN Returns([item |-> parsed.value])
             ELSE Throws("Invalid JSON format in OpenAI response")

\* the regular expression of the multi-item mode used in every mode
OpenBracketOfItems(mode) == "{"

\* the bracket the mode's regular expression looks for
OpenBracket(mode) == IF mode = "array" THEN "[" ELSE "{"
CloseBracket(mode) == IF mode = "array" THEN "]" ELSE "}"

\* from contentClean to the return or the throw of the parsing part
ParseOutput(mode, content) ==
    LET contentClean == Clean(content)
        jsonMatch == Match(contentClean, OpenBracket(mode), CloseBracket(mode))
    IN IF jsonMatch # <<>>
       THEN IF JSONparse(jsonMatch).ok
            THEN Shaped(mode, JSONparse(jsonMatch).value)
            ELSE Throws("Invalid JSON format in OpenAI response")
       ELSE IF JSONparse(contentClean).ok
            THEN Shaped(mode, JSONparse(contentClean).value)
            ELSE Throws("OpenAI response is not valid JSON")

\* the outer catch rethrows every error of the try block
Rethrown(outcome) ==
    IF outcome.threw THEN Throws("OpenAI API error: " \o outcome.message)
    ELSE outcome

\* the record added to the decoded items: token_usage and warnings
WithUsage(outcome, usage) ==
    IF outcome.threw THEN outcome
    ELSE Returns([k \in DOMAIN outcome.value \cup {"token_usage", "warnings"} |->
                      CASE k = "token_usage" -> TokenUsage(usage)
                        [] k = "warnings" -> Warnings(TokenUsage(usage).total_tokens)
                        [] OTHER -> outcome.value[k]])

\* the vision function from the response of the model on
VisionReturn(mode, reply) ==
    Rethrown(WithUsage(ParseOutput(mode, reply.output_text), reply.usage))

-----------------------------------------------------------------------------
(* The handlers POST /process and POST /process-single, from the validated   *)
(* request to the response. The items the model writes here are of no        *)
(* collector type, so that processCollectorItem takes its default branch and *)
(* awaits no provider.                                                       *)

Request(mode, tags) == [mode |-> mode, tags |-> tags]
ModelResponse(text, usage) == [output_text |-> text, usage |-> usage]

NotSent == [status |-> 0]

\* const startTime = Date.now() at the entry of the handler; nothing has been
\* called or sent yet
Started ==
    [startTime |-> 0, now |-> 0, downloads |-> 0, fetched |-> "nothing",
     visionCalls |-> 0, deletions |-> 0, responses |-> 0,
     deleteSuccess |-> FALSE]

\* the clock moves on while the handler takes a step
Tock(h) == [h EXCEPT !.now = @ + 1]

\* fetch(imageUrl) has been awaited, with the given outcome
Downloaded(h, outcome) ==
    [Tock(h) EXCEPT !.downloads = @ + 1, !.fetched = outcome]

\* client.responses.create has been called
Called(h) == [Tock(h) EXCEPT !.visionCalls = @ + 1]

\* res.json has been called
Sent(h) == [Tock(h) EXCEPT !.responses = @ + 1]

\* (Date.now() - startTime) / 1000
Elapsed == io.now - io.startTime

\* error of the 500 response of /process-single, and of /process
ErrorText ==
    IF req.mode = "single" THEN "Failed to process single item"
    ELSE "Failed to process image"

\* the catch of the handler without its clock reading
FailedUntimed(message) ==
    [status |-> 500, error |-> ErrorText, details |-> message]

\* the catch of the handler
Failed(message) ==
    [status |-> 500, error |-> ErrorText,
     processing_time |-> Elapsed, details |-> message]

\* processCollectorItem on a decoded element
Enriched(v) == IF IsItemObject(v) THEN JsonItem(NoEnrichment(v.item)) ELSE v

\* processCollectorItems(result.items)
EnrichedAll(v) ==
    IF IsArray(v) THEN JsonArray([k \in 1..Len(v.elems) |-> Enriched(v.elems[k])])
    ELSE v

\* res.json({...})
Succeeded(mode, r) ==
    CASE mode = "array" ->
             [status |-> 200, items |-> r.items,
              token_usage |-> r.token_usage, warnings |-> r.warnings,
              processing_time |-> Elapsed]
      [] mode = "items" ->
             [status |-> 200, items |-> EnrichedAll(r.items),
              token_usage |-> r.token_usage, warnings |-> r.warnings,
              processing_time |-> Elapsed]
      [] mode = "single" ->
             [status |-> 200, item |-> Enriched(r.item),
              token_usage |-> r.token_usage, warnings |-> r.warnings,
              processing_time |-> Elapsed]

CollectorIdle ==
    /\ items = <<>>
    /\ script = <<>>
    /\ discogsCreds = FALSE
    /\ task = <<>>
    /\ batch = "idle"
    /\ enrichedItems = <<>>
    /\ waited = <<>>

\* a request that passed validation, and the response the model will give
InitRequest(r, m) ==
    /\ req = r
    /\ response = m
    /\ stage = "received"
    /\ allTags = <<>>
    /\ result = [items |-> JsonArray(<<>>)]
    /\ res = NotSent
    /\ io = Downloaded(Started, "ok")
    /\ CollectorIdle

\* the handler up to the call of the model: the coercion of tags, and in
\* the vision function the merge with the system tags, whose exception ends
\* in the catch of the handler
HandleRequest ==
    /\ stage = "received"
    /\ LET merged == IF req.mode = "array" THEN Returns(<<>>)
                     ELSE mergeTagsWithSystem(CoerceTags(req.tags))
       IN IF merged.threw
          THEN /\ res' = Failed(merged.message)
               /\ stage' = "sent"
               /\ io' = Sent(io)
               /\ UNCHANGED allTags
          ELSE /\ allTags' = merged.value
               /\ stage' = "calling"
               /\ io' = Called(io)
               /\ UNCHANGED res
    /\ UNCHANGED <<req, response, result, collectorVars>>

\* the model answers: the vision function returns or throws
OpenAIResponds ==
    /\ stage = "calling"
    /\ LET r == VisionReturn(req.mode, response)
       IN IF r.threw
          THEN /\ res' = Failed(r.message)
               /\ stage' = "sent"
               /\ io' = Sent(io)
               /\ UNCHANGED result
          ELSE /\ result' = r.value
               /\ stage' = "parsed"
               /\ io' = Tock(io)
               /\ UNCHANGED res
    /\ UNCHANGED <<req, response, allTags, collectorVars>>

\* enrichment of the decoded items and res.json
Respond ==
    /\ stage = "parsed"
    /\ res' = Succeeded(req.mode, result)
    /\ stage' = "sent"
    /\ io' = Sent(io)
    /\ UNCHANGED <<req, response, allTags, result, collectorVars>>

NextRequest ==
    \/ HandleRequest
    \/ OpenAIResponds
    \/ Respond

-----------------------------------------------------------------------------
(* Inputs of the handlers *)

ObjectText(body) == <<"{", body, "}">>

RECURSIVE ElementsText(_)
ElementsText(bodies) ==
    IF bodies = <<>> THEN <<>>
    ELSE IF Len(bodies) = 1 THEN ObjectText(Head(bodies))
    ELSE ObjectText(Head(bodies)) \o <<",", Ws>> \o ElementsText(Tail(bodies))

\* the JSON array the array-mode prompt asks for
ArrayText(bodies) == <<"[">> \o ElementsText(bodies) \o <<"]">>

\* the JSON object with key 'items' the multi-item prompt asks for
ItemsText(bodies) == <<"{", "items:", Ws>> \o ArrayText(bodies) \o <<"}">>

\* the JSON object with a single 'item' object the single-item prompt asks for
SingleText(body) == <<"{", "item:", Ws>> \o ObjectText(body) \o <<"}">>

NoTags == TagsValue("absent", <<>>)

\* the counts a usage object may carry under each of its names
Counts == {NullNum, 0, 7000, 8000, 8001}
Totals == {NullNum, 0, 15000, 15001, 16000}

UsageInputs ==
    {Usage(it, pt, ot, ct, tt) :
         it \in Counts, pt \in Counts, ot \in Counts, ct \in Counts, tt \in Totals}

\* a request answered with the text its prompt asks for and any usage object
InitUsage ==
    \E u \in UsageInputs :
        \/ InitRequest(Request("items", NoTags),
                       ModelResponse(ItemsText(<<"laptop">>), u))
        \/ InitRequest(Request("single", NoTags),
                       ModelResponse(SingleText("laptop"), u))

\* token accounting of POST /process and POST /process-single
SpecUsage == InitUsage /\ [][NextRequest]_vars

\* the longest array of caller tags
MaxTags == 3

\* the elements of a caller's tags array: tags in several casings, some of
\* them in the system vocabulary, and an element that is no string
TagElements == {"Wine", "WINE", "lp", "Books", "BOOKS", "books", "jazz", NUMBER}

TagArrays ==
    UNION {[1..n -> TagElements] : n \in 0..MaxTags}

\* what a request body may carry under `tags`
TagsInputs ==
    {TagsValue("array", t) : t \in TagArrays}
    \cup {TagsValue(k, <<>>) : k \in {"absent", "null", "number", "object"}}
    \cup {TagsValue("string", <<"l", "p">>)}

\* a request with any tags value, answered with the text its prompt asks for
InitTags ==
    \E t \in TagsInputs :
        \/ InitRequest(Request("items", t),
                       ModelResponse(ItemsText(<<"laptop">>), NoUsage))
        \/ InitRequest(Request("single", t),
                       ModelResponse(SingleText("laptop"), NoUsage))

\* tag resolution of POST /process and POST /process-single
SpecTags == InitTags /\ [][NextRequest]_vars

\* the longest array of items the model writes
MaxN == 2

BodySeqs == UNION {[1..n -> ItemBodies] : n \in 0..MaxN}

\* prose before the JSON text: none, plain, or with a remark in brackets
Leads == {<<>>, <<Word, Ws>>, <<Word, "[", Word, "]", Ws>>}

\* prose after the JSON text
Trails == {<<>>, <<Ws, Word>>, <<Ws, "[", Word, "]">>}

OpenFences == {<<>>, <<Fence, Lang, Ws>>, <<Fence, Ws>>}
CloseFences == {<<>>, <<Ws, Fence>>}

\* text without its last token: output cut off by max_output_tokens
CutOff(text) == SubSeq(text, 1, Len(text) - 1)

\* what the model may write between the fences: the JSON text one of the
\* three prompts asks for, a single item object, an item member holding an
\* array, the same cut off, prose, or nothing
Shapes ==
    {"array", "items", "single", "object", "item array",
     "cut array", "cut items", "cut single", "prose", "nothing"}

\* the shapes written around one item object, and those without any
OfOneItem == {"single", "object", "cut single"}
OfNoItem == {"item array", "prose", "nothing"}

CoreText(shape, b) ==
    CASE shape = "array" -> ArrayText(b)
      [] shape = "items" -> ItemsText(b)
      [] shape = "single" -> SingleText(b[1])
      [] shape = "object" -> ObjectText(b[1])
      [] shape = "item array" -> <<"{", "item:", Ws, "[", "]", "}">>
      [] shape = "cut array" -> CutOff(ArrayText(b))
      [] shape = "cut items" -> CutOff(ItemsText(b))
      [] shape = "cut single" -> CutOff(SingleText(b[1]))
      [] shape = "prose" -> <<Word>>
      [] shape = "nothing" -> <<>>

Wrapped(lead, open, core, close, trail) ==
    lead \o open \o core \o close \o trail

\* the response of the model, with the parts its output_text is written of
Written(lead, open, shape, b, close, trail) ==
    [output_text |-> Wrapped(lead, open, CoreText(shape, b), close, trail),
     usage |-> NoUsage,
     lead |-> lead, open |-> open, shape |-> shape, bodies |-> b,
     close |-> close, trail |-> trail]

\* a request in any mode answered with any of the texts
InitParse ==
    \E mode \in Modes, shape \in Shapes, b \in BodySeqs,
       lead \in Leads, open \in OpenFences,
       close \in CloseFences, trail \in Trails :
        /\ shape \in OfOneItem => Len(b) = 1
        /\ shape \in OfNoItem => Len(b) = 0
        /\ InitRequest(Request(mode, NoTags),
                       Written(lead, open, shape, b, close, trail))

\* decoding of the model output by the three vision functions
SpecParse == InitParse /\ [][NextRequest]_vars

-----------------------------------------------------------------------------
(* The handlers POST /process ("items") and POST /process-single ("single") *)
(* from the entry of the handler on: validation of the body, download of    *)
(* the image, the vision call, enrichment of the decoded items, deletion of *)
(* the image and the response. req carries the body and the uid of the      *)
(* verified token; the items are handed to processCollectorItems, whose     *)
(* steps are those of the collector pipeline above.                         *)

\* the body of a request and the uid of req.user
Body(mode, tags, image_url, user_id, uid) ==
    [mode |-> mode, tags |-> tags, image_url |-> image_url,
     user_id |-> user_id, uid |-> uid]

MissingFields ==
    [status |-> 400,
     error |-> "Missing required fields: image_url and user_id are required"]

IdMismatch ==
    [status |-> 403, error |-> "User ID does not match authenticated user"]

\* the validation that compares no uid
ValidationOfFieldsOnly(r) ==
    IF ~TruthyStr(r.image_url) \/ ~TruthyStr(r.user_id)
    THEN Throws("missing") ELSE Returns(r)

\* the two checks at the head of the handler
Validation(r) ==
    IF ~TruthyStr(r.image_url) \/ ~TruthyStr(r.user_id) THEN Throws("missing")
    ELSE IF r.uid # r.user_id THEN Throws("mismatch")
    ELSE Returns(r)

\* what the fetch of the image and the extraction of its path may end in
DownloadOutcomes == {"ok", "not found", "fetch failed", "no path"}

\* downloadAndEncodeImage going on without an image
DownloadReturnLenient(outcome) == Returns(outcome)

\* downloadAndEncodeImage: base64 and filePath, or the error of its catch
DownloadReturn(outcome) ==
    CASE outcome = "ok" -> Returns(outcome)
      [] outcome = "not found" ->
             Throws("Failed to download image from URL: Failed to fetch image: Not Found")
      [] outcome = "fetch failed" ->
             Throws("Failed to download image from URL: fetch failed")
      [] outcome = "no path" ->
             Throws("Image processing error: Invalid Firebase Storage URL format")

\* a decoded element as processCollectorItem reads it
AsItem(v) == IF IsItemObject(v) THEN v.item ELSE EmptyObject

\* result.items of /process, result.item of /process-single
ItemsToEnrich(mode, r) ==
    IF mode = "single" THEN <<AsItem(r.item)>>
    ELSE [k \in 1..Len(r.items.elems) |-> AsItem(r.items.elems[k])]

NoStats ==
    [total_items |-> 0, collector_items |-> 0, wine_items |-> 0,
     vinyl_items |-> 0, general_items |-> 0]

\* the body of items.forEach in getCollectorStats, from item k on
RECURSIVE CountItems(_, _, _)
CountItems(its, k, stats) ==
    IF k > Len(its) THEN stats
    ELSE LET byCategory ==
                 CASE its[k].collector_category = "wine" ->
                          [stats EXCEPT !.collector_items = @ + 1,
                                        !.wine_items = @ + 1]
                   [] its[k].collector_category = "vinyl" ->
                          [stats EXCEPT !.collector_items = @ + 1,
                                        !.vinyl_items = @ + 1]
                   [] OTHER -> [stats EXCEPT !.general_items = @ + 1]
         IN CountItems(its, k + 1,
                [byCategory EXCEPT !.enrichment_failures =
                     IF TruthyStr(its[k].collector_warning) THEN @ + 1 ELSE @])

\* statistics that count an item with a warning as no item of its category
getCollectorStatsOfEnriched(its) ==
    CountItems(SelectSeq(its, LAMBDA it : ~TruthyStr(it.collector_warning)), 1,
               [total_items |-> Len(its), collector_items |-> 0,
                wine_items |-> 0, vinyl_items |-> 0, general_items |-> 0,
                enrichment_failures |-> 0])

getCollectorStats(its) ==
    IF Len(its) = 0 THEN NoStats
    ELSE CountItems(its, 1,
             [total_items |-> Len(its), collector_items |-> 0,
              wine_items |-> 0, vinyl_items |-> 0, general_items |-> 0,
              enrichment_failures |-> 0])

\* a handler that answers a failed deletion from its catch
ProcessedUnlessDeletionFailed(mode, its, r, h) ==
    IF ~h.deleteSuccess THEN Failed("Failed to delete image")
    ELSE IF mode = "single"
    THEN [status |-> 200, item |-> its[1], token_usage |-> r.token_usage,
          warnings |-> r.warnings, processing_time |-> Elapsed,
          user_id |-> req.user_id, image_deleted |-> h.deleteSuccess]
    ELSE [status |-> 200, items |-> its, token_usage |-> r.token_usage,
          warnings |-> r.warnings, processing_time |-> Elapsed,
          user_id |-> req.user_id, image_deleted |-> h.deleteSuccess,
          collector_stats |-> getCollectorStats(its)]

\* res.json({...}) of the two handlers
Processed(mode, its, r, h) ==
    IF mode = "single"
    THEN [status |-> 200, item |-> its[1], token_usage |-> r.token_usage,
          warnings |-> r.warnings, processing_time |-> Elapsed,
          user_id |-> req.user_id, image_deleted |-> h.deleteSuccess]
    ELSE [status |-> 200, items |-> its, token_usage |-> r.token_usage,
          warnings |-> r.warnings, processing_time |-> Elapsed,
          user_id |-> req.user_id, image_deleted |-> h.deleteSuccess,
          collector_stats |-> getCollectorStats(its)]

\* the two early returns, else on to the download
ValidateRequest ==
    /\ stage = "arrived"
    /\ LET v == Validation(req)
       IN IF v.threw
          THEN /\ res' = IF v.message = "missing" THEN MissingFields
                         ELSE IdMismatch
               /\ stage' = "sent"
               /\ io' = Sent(io)
          ELSE /\ stage' = "validated"
               /\ io' = Tock(io)
               /\ UNCHANGED res
    /\ UNCHANGED <<req, response, allTags, result, collectorVars>>

\* await downloadAndEncodeImage(image_url)
DownloadImage ==
    /\ stage = "validated"
    /\ \E outcome \in DownloadOutcomes :
           IF DownloadReturn(outcome).threw
           THEN /\ res' = Failed(DownloadReturn(outcome).message)
                /\ stage' = "sent"
                /\ io' = [Sent(io) EXCEPT !.downloads = @ + 1,
                                          !.fetched = outcome]
           ELSE /\ stage' = "received"
                /\ io' = Downloaded(io, outcome)
                /\ UNCHANGED res
    /\ UNCHANGED <<req, response, allTags, result, collectorVars>>

\* the request to the model fails: the catch of the vision function
\* rethrows, the catch of the handler answers
OpenAIRejects ==
    /\ stage = "calling"
    /\ res' = Failed("OpenAI API error: Request timed out.")
    /\ stage' = "sent"
    /\ io' = Sent(io)
    /\ UNCHANGED <<req, response, allTags, result, collectorVars>>

\* the script of an item no provider is asked about
NoAnswer == Script("empty", NullNum, "ok", "ok")

\* the handler calls processCollectorItems(result.items), or
\* processCollectorItem(result.item) as a batch of one; what the providers
\* will answer for each item is fixed here
CallCollector ==
    /\ stage = "parsed"
    /\ batch = "uncalled"
    /\ items' = ItemsToEnrich(req.mode, result)
    /\ script' \in {scs \in [1..Len(items') -> BatchScripts] :
                      \A i \in 1..Len(items') :
                          Route(items'[i]) = "none" => scs[i] = NoAnswer}
    /\ task' = [i \in 1..Len(items') |-> Unstarted]
    /\ waited' = [i \in 1..Len(items') |-> 0]
    /\ batch' = "idle"
    /\ stage' = "enriching"
    /\ io' = Tock(io)
    /\ UNCHANGED <<discogsCreds, enrichedItems>>
    /\ UNCHANGED <<req, response, allTags, result, res>>

\* enrichment has returned: getCollectorStats, then
\* await deleteImageFromFirebase(filePath), which returns true or false; a
\* rejected enrichment would end in the catch of the handler
DeleteImage ==
    /\ stage = "enriching"
    /\ batch \in {"returned", "rejected"}
    /\ IF batch = "rejected"
       THEN /\ res' = Failed("enrichment rejected")
            /\ stage' = "sent"
            /\ io' = Sent(io)
       ELSE /\ \E deleteSuccess \in BOOLEAN :
                   io' = [Tock(io) EXCEPT !.deletions = @ + 1,
                                          !.deleteSuccess = deleteSuccess]
            /\ stage' = "deleted"
            /\ UNCHANGED res
    /\ UNCHANGED <<req, response, allTags, result, collectorVars>>

\* res.json({...})
SendResponse ==
    /\ stage = "deleted"
    /\ res' = Processed(req.mode, enrichedItems, result, io)
    /\ stage' = "sent"
    /\ io' = Sent(io)
    /\ UNCHANGED <<req, response, allTags, result, collectorVars>>

NextHandler ==
    \/ ValidateRequest
    \/ DownloadImage
    \/ HandleRequest
    \/ OpenAIResponds
    \/ OpenAIRejects
    \/ CallCollector
    \/ Next
    \/ DeleteImage
    \/ SendResponse

\* what the model answers: the items asked for, or text that is cut off
HandlerTexts(mode) ==
    IF mode = "single"
    THEN {SingleText(b) : b \in HandlerBodies}
         \cup {CutOff(SingleText("chair"))}
    ELSE {ItemsText(b) :
              b \in UNION {[1..n -> HandlerBodies] : n \in 0..MaxItems}}
         \cup {CutOff(ItemsText(<<"chair">>))}

\* image_url and user_id as a body may carry them: missing, null, empty, set
ImageUrls == {ABSENT, "", "https://firebasestorage.googleapis.com/v0/b/p/o/photo.jpg"}
UserIds == {ABSENT, NULL, "", "alice", "bob", NUMBER}

\* a request of the caller alice as the handler finds it
InitHandler ==
    \E mode \in {"items", "single"}, image_url \in ImageUrls,
       user_id \in UserIds, tags \in {NoTags, TagsValue("array", <<NUMBER>>)} :
        \E text \in HandlerTexts(mode), usage \in {NoUsage, Usage(7000, 7000, 8001, 8001, NullNum)} :
            /\ req = Body(mode, tags, image_url, user_id, "alice")
            /\ response = ModelResponse(text, usage)
            /\ stage = "arrived"
            /\ allTags = <<>>
            /\ result = [items |-> JsonArray(<<>>)]
            /\ res = NotSent
            /\ io = Started
            /\ items = <<>>
            /\ script = <<>>
            /\ discogsCreds \in BOOLEAN
            /\ task = <<>>
            /\ batch = "uncalled"
            /\ enrichedItems = <<>>
            /\ waited = <<>>

\* POST /process and POST /process-single from the entry of the handler on
SpecHandler == InitHandler /\ [][NextHandler]_vars

-----------------------------------------------------------------------------
(* Bounding boxes: normalizeBoundingBoxes(items, imageWidth, imageHeight) of *)
(* the array-mode service, with the arithmetic of its four fields. A number  *)
(* is a whole number n or n + 0.5.                                           *)

\* the values a member of a decoded bbox may hold
Num(n, half) == [t |-> "number", n |-> n, half |-> half]
Null == [t |-> "null"]
Undefined == [t |-> "undefined"]
Text == [t |-> "string"]
Infinity == [t |-> "Infinity"]
NaN == [t |-> "NaN"]

\* Number(v): null converts to 0, undefined and a string that is no numeral
\* to NaN
ToNumber(v) ==
    CASE v.t = "number" -> v
      [] v.t = "null" -> Num(0, FALSE)
      [] v.t = "Infinity" -> v
      [] OTHER -> NaN

\* Number.isFinite
IsFinite(v) == v.t = "number"

\* Math.floor of a finite number
Floor(v) == v.n

Box(x, y, width, height) ==
    [t |-> "object", x |-> x, y |-> y, width |-> width, height |-> height]

\* the box without the cut of its width and height at the image border
NormalizeBoxUncut(b, imageWidth, imageHeight) ==
    IF b.t # "object" THEN Null
    ELSE IF \E k \in {"x", "y", "width", "height"} : ~IsFinite(ToNumber(b[k]))
    THEN Null
    ELSE Box(Num(Max({0, Min({Floor(ToNumber(b.x)), imageWidth - 1})}), FALSE),
             Num(Max({0, Min({Floor(ToNumber(b.y)), imageHeight - 1})}), FALSE),
             Num(Max({1, Floor(ToNumber(b.width))}), FALSE),
             Num(Max({1, Floor(ToNumber(b.height))}), FALSE))

\* the body of items.map in normalizeBoundingBoxes: the bbox of one item
NormalizeBox(b, imageWidth, imageHeight) ==
    IF b.t # "object" THEN Null
    ELSE IF \E k \in {"x", "y", "width", "height"} : ~IsFinite(ToNumber(b[k]))
    THEN Null
    ELSE LET x == Max({0, Min({Floor(ToNumber(b.x)), imageWidth - 1})})
             y == Max({0, Min({Floor(ToNumber(b.y)), imageHeight - 1})})
             w == Max({1, Floor(ToNumber(b.width))})
             h == Max({1, Floor(ToNumber(b.height))})
         IN Box(Num(x, FALSE), Num(y, FALSE),
                Num(IF x + w > imageWidth THEN Max({1, imageWidth - x}) ELSE w,
                    FALSE),
                Num(IF y + h > imageHeight THEN Max({1, imageHeight - y}) ELSE h,
                    FALSE))

\* items.map(item => ({ ...item, bbox })); a value that is no array is
\* returned as it is
NormalizeAll(its, imageWidth, imageHeight) ==
    IF ~IsArray(its) THEN its
    ELSE JsonArray([k \in 1..Len(its.elems) |->
             [its.elems[k] EXCEPT
                  !.bbox = NormalizeBox(@, imageWidth, imageHeight)]])

\* the largest image width and height
MaxDim == 2

\* the members of a bbox: whole numbers from left of the image to right of
\* it, two fractions, and values that are no finite number
Coordinates ==
    {Num(n, FALSE) : n \in -1..(MaxDim + 1)}
    \cup {Num(-1, TRUE), Num(0, TRUE), Null, Text, Infinity}

\* item?.bbox: a box, or a value that is no object
Bboxes ==
    {Box(x, y, width, height) :
         x \in Coordinates, y \in Coordinates,
         width \in Coordinates, height \in Coordinates}
    \cup {Null, Undefined, Text, Num(1, FALSE)}

\* the decoded array holds one item with any bbox, next to an item without
InitBbox ==
    \E imageWidth \in 1..MaxDim, imageHeight \in 1..MaxDim, b \in Bboxes :
        /\ req = [mode |-> "array", tags |-> NoTags,
                  imageWidth |-> imageWidth, imageHeight |-> imageHeight]
        /\ response = [items |-> JsonArray(<<[name |-> "lamp", bbox |-> b],
                                             [name |-> "vase", bbox |-> Undefined]>>)]
        /\ stage = "decoded"
        /\ allTags = <<>>
        /\ result = response
        /\ res = NotSent
        /\ io = Started
        /\ CollectorIdle

\* normalizeBoundingBoxes is applied to the decoded items, and once more to
\* what it returned
NormalizeBoundingBoxes ==
    /\ stage \in {"decoded", "normalized"}
    /\ result' = [items |-> NormalizeAll(result.items, req.imageWidth,
                                         req.imageHeight)]
    /\ stage' = IF stage = "decoded" THEN "normalized" ELSE "normalized again"
    /\ UNCHANGED <<req, response, allTags, res, io, collectorVars>>

\* normalizeBoundingBoxes on the decoded items of one image
SpecBbox == InitBbox /\ [][NormalizeBoundingBoxes]_vars

-----------------------------------------------------------------------------
(* The voice-assistant webhook POST /assistant/webhook. req carries the item *)
(* name of the intent and the bearer token, response what Firestore holds:   *)
(* the item documents the name search returns and the pakket documents.      *)

\* a pakket document: its name, its uids member and its memberRoles map
Pakket(name, isArray, uids, memberRoles) ==
    [exists |-> TRUE, name |-> name,
     uids |-> [isArray |-> isArray, elems |-> uids],
     memberRoles |-> memberRoles]

\* the pakkets collection: doc(parentId).get()
PakketDoc(parentId) ==
    CASE parentId = "hall" ->
             Pakket("hall", TRUE, <<"bob", "alice">>, <<>>)
      [] parentId = "attic" ->
             Pakket("attic", TRUE, <<"bob">>, "alice" :> "viewer")
      [] parentId = "box" ->
             Pakket(ABSENT, TRUE, <<"alice">>, "bob" :> "owner")
      [] parentId = "shed" ->
             Pakket("shed", TRUE, <<"bob">>, "bob" :> "owner")
      [] parentId = "safe" ->
             Pakket("safe", FALSE, <<"alice">>, "alice" :> "")
      [] OTHER -> [exists |-> FALSE]

\* the item documents a search for "passport" may return: one per pakket, one
\* whose pakket is gone, one without parent; the one in the attic was found
\* by its prefix, the one in the hall has no name
ItemDocs ==
    {[name |-> "passport", parentId |-> p] :
         p \in {"box", "shed", "safe", "gone", ABSENT}}
    \cup {[name |-> "passport cover", parentId |-> "attic"],
          [name |-> ABSENT, parentId |-> "hall"]}

\* verifyAssistantAccessToken: the decoded token's uid, or null without a
\* bearer header and for a token verifyIdToken rejects
DecodedUid(token) == IF token \in {"missing", "invalid"} THEN NULL ELSE token

\* access for every caller to every pakket that exists
HasAccessToExisting(pakket, uid) == pakket.exists

\* uids.includes(decodedToken.uid) || Boolean(memberRoles[decodedToken.uid])
HasAccess(pakket, uid) ==
    /\ pakket.exists
    /\ \/ /\ pakket.uids.isArray
          /\ \E k \in 1..Len(pakket.uids.elems) : pakket.uids.elems[k] = uid
       \/ /\ uid \in DOMAIN pakket.memberRoles
          /\ TruthyStr(pakket.memberRoles[uid])

\* the body of matches.map: name, location and hasAccess of one match
EnrichedMatch(match, itemName, uid) ==
    LET pakket == IF TruthyStr(match.parentId) THEN PakketDoc(match.parentId)
                  ELSE [exists |-> FALSE]
    IN [name |-> IF TruthyStr(match.name) THEN match.name ELSE itemName,
        location |-> IF pakket.exists /\ TruthyStr(pakket.name)
                     THEN pakket.name ELSE "unknown location",
        hasAccess |-> HasAccess(pakket, uid)]

\* buildAssistantResponse(templates.<template>(...)): the template and what
\* it is filled with
Speech(template, name, list) ==
    [status |-> 200, template |-> template, name |-> name, list |-> list]

\* a list of all the matches that are accessible
RespondToMatchesUnsliced(enriched, itemName) ==
    LET accessible == SelectSeq(enriched, LAMBDA m : m.hasAccess)
    IN IF Len(accessible) = 0 THEN Speech("no_access", "", <<>>)
       ELSE IF Len(accessible) = 1
       THEN Speech("found", accessible[1].name,
                   <<[name |-> accessible[1].name,
                      location |-> accessible[1].location]>>)
       ELSE Speech("multiple_matches", itemName,
                   [k \in 1..Len(accessible) |->
                        [name |-> accessible[k].name,
                         location |-> accessible[k].location]])

\* the end of the handler, from the filter on accessible matches on
RespondToMatches(enriched, itemName) ==
    LET accessible == SelectSeq(enriched, LAMBDA m : m.hasAccess)
    IN IF Len(accessible) = 0 THEN Speech("no_access", "", <<>>)
       ELSE IF Len(accessible) = 1
       THEN Speech("found", accessible[1].name,
                   <<[name |-> accessible[1].name,
                      location |-> accessible[1].location]>>)
       ELSE Speech("multiple_matches", itemName,
                   [k \in 1..Min({3, Len(accessible)}) |->
                        [name |-> accessible[k].name,
                         location |-> accessible[k].location]])

\* the most item documents a search returns
MaxMatches == 4

\* a FindItem request with or without an item name and with any token, and
\* the documents the search for the name will return
InitWebhook ==
    \E itemName \in {ABSENT, NUMBER, "passport"},
       token \in {"missing", "invalid", "alice", "carol"},
       n \in 0..MaxMatches :
        \E matches \in [1..n -> ItemDocs] :
            /\ req = [mode |-> "webhook", tags |-> NoTags,
                      itemName |-> itemName, token |-> token]
            /\ response = [matches |-> matches]
            /\ stage = "arrived"
            /\ allTags = <<>>
            /\ result = [matches |-> <<>>]
            /\ res = NotSent
            /\ io = Started
            /\ CollectorIdle

\* the handler up to await verifyAssistantAccessToken: a request without an
\* item name is asked for one
WebhookReceives ==
    /\ req.mode = "webhook"
    /\ stage = "arrived"
    /\ IF ~TruthyStr(req.itemName) \/ req.itemName = NUMBER
       THEN /\ res' = Speech("missing_item", "", <<>>)
            /\ stage' = "sent"
            /\ io' = Sent(io)
       ELSE /\ stage' = "verifying"
            /\ io' = Tock(io)
            /\ UNCHANGED res
    /\ UNCHANGED <<req, response, allTags, result, collectorVars>>

\* verifyAssistantAccessToken has returned
TokenVerified ==
    /\ stage = "verifying"
    /\ IF ~TruthyStr(DecodedUid(req.token))
       THEN /\ res' = Speech("no_access", "", <<>>)
            /\ stage' = "sent"
            /\ io' = Sent(io)
       ELSE /\ stage' = "searching"
            /\ io' = Tock(io)
            /\ UNCHANGED res
    /\ UNCHANGED <<req, response, allTags, result, collectorVars>>

\* findItemsByName has returned its matches
ItemsFound ==
    /\ stage = "searching"
    /\ IF Len(response.matches) = 0
       THEN /\ res' = Speech("not_found", req.itemName, <<>>)
            /\ stage' = "sent"
            /\ io' = Sent(io)
            /\ UNCHANGED result
       ELSE /\ result' = [matches |-> response.matches]
            /\ stage' = "loading"
            /\ io' = Tock(io)
            /\ UNCHANGED res
    /\ UNCHANGED <<req, response, allTags, collectorVars>>

\* a Firestore query rejects: the catch of the handler answers
FirestoreRejects ==
    /\ stage \in {"searching", "loading"}
    /\ res' = [Speech("error", "", <<>>) EXCEPT !.status = 500]
    /\ stage' = "sent"
    /\ io' = Sent(io)
    /\ UNCHANGED <<req, response, allTags, result, collectorVars>>

\* the pakket documents have been read: the matches are enriched, filtered
\* and answered
PakketsLoaded ==
    /\ stage = "loading"
    /\ res' = RespondToMatches(
                  [k \in 1..Len(result.matches) |->
                       EnrichedMatch(result.matches[k], req.itemName,
                                     DecodedUid(req.token))],
                  req.itemName)
    /\ stage' = "sent"
    /\ io' = Sent(io)
    /\ UNCHANGED <<req, response, allTags, result, collectorVars>>

NextWebhook ==
    \/ WebhookReceives
    \/ TokenVerified
    \/ ItemsFound
    \/ FirestoreRejects
    \/ PakketsLoaded

\* one request to the voice-assistant webhook
SpecWebhook == InitWebhook /\ [][NextWebhook]_vars

-----------------------------------------------------------------------------
(* Properties *)

Tasks == 1..Len(items)

\* task i has returned a value
Returned(i) == task[i].pc = "resolved"

\* items[i] is an object whose item_type is wine or vinyl
IsCollectorTyped(i) ==
    ~items[i].nullish /\ items[i].item_type \in {"wine", "vinyl"}

\* the provider's search for item i fails: no match, malformed body, non-OK
\* status, exception or timeout
SearchFails(i) == script[i].search # "match"

\* C1: an item typed wine or vinyl whose provider lookup finds nothing, answers
\* non-OK, throws or times out is returned (the task never rejects) with every
\* original field unchanged, collector_data = null and a non-empty
\* collector_warning.
C1_FailedLookupDegrades ==
    \A i \in Tasks :
        IsCollectorTyped(i) =>
            /\ task[i].pc # "rejected"
            /\ (SearchFails(i) /\ task[i].pc \notin {"idle", "search"}) =>
                   /\ Returned(i)
                   /\ OriginalFields(task[i].result) = OriginalFields(items[i])
                   /\ task[i].result.collector_category = items[i].item_type
                   /\ task[i].result.collector_data = NullData
                   /\ TruthyStr(task[i].result.collector_warning)

\* a wine lookup that was sent and timed out, and the item came back
C1_Witness ==
    \E i \in Tasks :
        /\ IsCollectorTyped(i)
        /\ items[i].item_type = "wine"
        /\ script[i].search = "timeout"
        /\ task[i].calls = 1
        /\ Returned(i)
        /\ task[i].result.collector_data = NullData

\* the request the strategy of item i sends when it looks the item up
RequestOf(i) ==
    IF items[i].item_type = "wine"
    THEN WineRequest(WineSearchText(items[i]), items[i].collector_details.vintage)
    ELSE VinylRequest(items[i].vinyl_details.artist, items[i].vinyl_details.album,
                      items[i].vinyl_details.release_year)

\* e is an enrichment outcome of input item i: the item's own fields, the
\* category of its item_type, and provider data answering the item's own request
EnrichmentOf(e, i) ==
    /\ OriginalFields(e) = OriginalFields(Spread(items[i]))
    /\ e.collector_category =
           IF IsCollectorTyped(i) THEN items[i].item_type ELSE NULL
    /\ e.collector_data.kind = "wine" =>
           /\ items[i].item_type = "wine"
           /\ e.collector_data.vivino_url = RequestOf(i).text
    /\ e.collector_data.kind = "vinyl" =>
           /\ items[i].item_type = "vinyl"
           /\ e.collector_data.discogs_id = RequestOf(i).text
    /\ (e.collector_data.kind \in {"null", "absent"} /\ IsCollectorTyped(i)) =>
           TruthyStr(e.collector_warning)

\* C2: whatever the completion order of the lookups, processCollectorItems
\* returns a sequence of the input's length whose element i is the enrichment
\* result of input item i.
C2_OrderPreserved ==
    batch = "returned" =>
        /\ Len(enrichedItems) = Len(items)
        /\ \A i \in Tasks :
               Len(items) > 0 =>
                   /\ enrichedItems[i] = task[i].result
                   /\ EnrichmentOf(enrichedItems[i], i)

\* a returned batch whose second item settled at once while the first needed
\* three provider round trips
C2_Witness ==
    /\ batch = "returned"
    /\ Len(items) = 2
    /\ task[1].calls = 3
    /\ task[2].calls = 0
    /\ enrichedItems[1].name = "record"
    /\ enrichedItems[1].collector_data.kind = "vinyl"
    /\ enrichedItems[2].name = "laptop"

\* C3: a step of task i leaves every other task as it is, a returned result is
\* never changed afterwards, no task and no batch ever rejects, and a returned
\* batch holds a result for every input item.
C3_Isolation ==
    [][ /\ \A i \in Tasks : \A j \in Tasks \ {i} :
               (task[i].pc # "idle" /\ task'[i] # task[i]) => task'[j] = task[j]
        /\ \A j \in Tasks : Returned(j) => task'[j] = task[j]
        /\ \A j \in Tasks : task'[j].pc # "rejected"
        /\ batch' # "rejected"
        /\ batch' = "returned" =>
               /\ Len(enrichedItems') = Len(items)
               /\ \A j \in Tasks : task'[j].pc = "resolved"
      ]_vars

\* a returned batch in which one lookup threw and the sibling was enriched
C3_Witness ==
    /\ batch = "returned"
    /\ \E i \in Tasks : \E j \in Tasks \ {i} :
           /\ script[i].search = "throw"
           /\ task[i].calls = 1
           /\ enrichedItems[i].collector_data = NullData
           /\ script[j].search = "match"
           /\ task[j].calls > 0
           /\ enrichedItems[j].collector_data.kind \in {"wine", "vinyl"}

\* items[i] is a general item as the response schema allows it: every
\* collector detail null, no enrichment key of its own
IsValidGeneral(i) ==
    /\ ~items[i].nullish
    /\ items[i].item_type = "general"
    /\ items[i].collector_details = Details(NULL, NULL, NullNum, NULL, NULL, NullNum)
    /\ items[i].collector_warning = ABSENT
    /\ items[i].collector_data = AbsentData

\* C4 as claimed: a valid general item is returned with collector_category =
\* null, the key collector_data present with value null, and no
\* collector_warning.
C4_Claimed ==
    \A i \in Tasks :
        (IsValidGeneral(i) /\ Returned(i)) =>
            /\ task[i].result.collector_category = NULL
            /\ task[i].result.collector_data = NullData
            /\ task[i].result.collector_warning = ABSENT

\* C4 as amended: an item typed general is returned with collector_category =
\* null and with collector_data and collector_warning exactly as on the input:
\* no collector_data key and no collector_warning key is added.
C4_GeneralPassesThrough ==
    \A i \in Tasks :
        (~items[i].nullish /\ items[i].item_type = "general" /\ task[i].pc # "idle") =>
            /\ Returned(i)
            /\ task[i].calls = 0
            /\ task[i].result.collector_category = NULL
            /\ task[i].result.collector_data = items[i].collector_data
            /\ task[i].result.collector_data = AbsentData
            /\ task[i].result.collector_warning = items[i].collector_warning
            /\ OriginalFields(task[i].result) = OriginalFields(items[i])

\* a valid general item came back without a collector_data key
C4_Witness ==
    \E i \in Tasks :
        /\ IsValidGeneral(i)
        /\ Returned(i)
        /\ task[i].result.collector_category = NULL
        /\ task[i].result.collector_data = AbsentData
        /\ task[i].result.collector_warning = ABSENT

\* C5: the wine strategy runs exactly for item_type 'wine' and the vinyl
\* strategy exactly for item_type 'vinyl', whatever the tags and the collector
\* details; any other item_type (general, unknown, other casing, missing,
\* non-string) sends no provider request, returns, and yields
\* collector_category = null; for wine and vinyl collector_category equals
\* item_type.
C5_RoutedByItemType ==
    \A i \in Tasks :
        task[i].pc # "idle" =>
            /\ task[i].strategy = "wine" <=>
                   (~items[i].nullish /\ items[i].item_type = "wine")
            /\ task[i].strategy = "vinyl" <=>
                   (~items[i].nullish /\ items[i].item_type = "vinyl")
            /\ ~IsCollectorTyped(i) =>
                   /\ task[i].calls = 0
                   /\ Returned(i)
                   /\ task[i].result.collector_category = NULL
            /\ (IsCollectorTyped(i) /\ Returned(i)) =>
                   task[i].result.collector_category = items[i].item_type

\* an item typed 'Wine' that carries the tag wine and full wine details was
\* returned without any lookup
C5_Witness ==
    \E i \in Tasks :
        /\ ~items[i].nullish
        /\ items[i].item_type = "Wine"
        /\ items[i].tags = <<"wine">>
        /\ HasWineDetails(items[i])
        /\ Returned(i)
        /\ task[i].strategy = "none"
        /\ task[i].calls = 0
        /\ task[i].result.collector_category = NULL

\* the warning the catch block of processCollectorItem writes for a null item
NullItemWarning ==
    "Failed to enrich item: Cannot read properties of null (reading 'item_type')"

\* C6 as claimed: in every returned item collector_warning is set only if
\* collector_category is non-null.
C6_Claimed ==
    \A i \in Tasks :
        (Returned(i) /\ task[i].result.collector_warning # ABSENT) =>
            task[i].result.collector_category \notin {NULL, ABSENT}

\* C6 as amended: collector_warning is set together with a null
\* collector_category in exactly two cases: routing threw (a null item), where
\* the catch block writes 'Failed to enrich item: <message>', and an item not
\* typed wine or vinyl that brought its own collector_warning, which is passed
\* through unchanged.  Otherwise a warning implies a non-null category.
C6_WarningWithNullCategory ==
    \A i \in Tasks :
        Returned(i) =>
            /\ items[i].nullish =>
                   /\ task[i].result.collector_category = NULL
                   /\ task[i].result.collector_warning = NullItemWarning
            /\ (~items[i].nullish /\ task[i].result.collector_warning # ABSENT
                /\ task[i].result.collector_category \in {NULL, ABSENT}) =>
                   /\ ~IsCollectorTyped(i)
                   /\ items[i].collector_warning # ABSENT
                   /\ task[i].result.collector_warning = items[i].collector_warning

\* a null item came back with a null category and the catch block's warning
C6_Witness ==
    \E i \in Tasks :
        /\ items[i].nullish
        /\ Returned(i)
        /\ task[i].result.collector_category = NULL
        /\ task[i].result.collector_warning = NullItemWarning

\* items[i] is a vinyl item as the response schema of the vision model shapes
\* it: artist, album and release_year inside collector_details, no other key
IsSchemaVinyl(i) ==
    /\ ~items[i].nullish
    /\ items[i].item_type = "vinyl"
    /\ items[i].collector_details = VinylDetails
    /\ ~items[i].vinyl_details.present
    /\ items[i].collector_warning = ABSENT

\* C7 as claimed: a schema-shaped vinyl item whose Discogs search succeeds and
\* whose detail lookup fails is returned with collector_category 'vinyl', a
\* non-null collector_data built from the search result only, and no
\* collector_warning.
C7_Claimed ==
    \A i \in Tasks :
        (/\ IsSchemaVinyl(i)
         /\ discogsCreds
         /\ script[i].search = "match"
         /\ script[i].detail # "ok"
         /\ Returned(i)) =>
            /\ task[i].result.collector_category = "vinyl"
            /\ task[i].result.collector_data.kind = "vinyl"
            /\ task[i].result.collector_data.shape = "search"
            /\ task[i].result.collector_warning = ABSENT

\* items[i] is a wine item of the vision model with a wine name
IsNamedWine(i) ==
    /\ ~items[i].nullish
    /\ items[i].item_type = "wine"
    /\ HasWineDetails(items[i])

\* C8 as claimed: a named wine item with a vintage year V for which the provider
\* returns a match is returned with collector_category 'wine', no
\* collector_warning and collector_data.vintage = V, whatever year the
\* provider's top record carries.
C8_Claimed ==
    \A i \in Tasks :
        (/\ IsNamedWine(i)
         /\ TruthyYear(items[i].collector_details.vintage)
         /\ items[i].collector_warning = ABSENT
         /\ script[i].search = "match"
         /\ Returned(i)) =>
            /\ task[i].result.collector_category = "wine"
            /\ task[i].result.collector_warning = ABSENT
            /\ task[i].result.collector_data.kind = "wine"
            /\ task[i].result.collector_data.vintage = items[i].collector_details.vintage

\* C8 as amended: such an item is returned with collector_category 'wine', no
\* collector_warning added, and collector_data.vintage equal to the year of
\* the provider's top record when that record carries one, and only otherwise
\* to the item's own vintage V (null when V is null or 0).
C8_ProviderYearFirst ==
    \A i \in Tasks :
        (IsNamedWine(i) /\ script[i].search = "match" /\ Returned(i)) =>
            /\ task[i].calls = 1
            /\ task[i].result.collector_category = "wine"
            /\ task[i].result.collector_warning = items[i].collector_warning
            /\ task[i].result.collector_data.kind = "wine"
            /\ task[i].result.collector_data.vintage =
                   IF script[i].year > 0 THEN script[i].year
                   ELSE IF items[i].collector_details.vintage > 0
                   THEN items[i].collector_details.vintage
                   ELSE NullNum

\* a 2015 wine matched by a top record of 2016 came back as 2016
C8_Witness ==
    \E i \in Tasks :
        /\ IsNamedWine(i)
        /\ items[i].collector_details.vintage = 2015
        /\ script[i].search = "match"
        /\ script[i].year = 2016
        /\ Returned(i)
        /\ task[i].result.collector_data.kind = "wine"
        /\ task[i].result.collector_data.vintage = 2016

\* C9 as claimed: a wine item without wine_name but with a winery is looked up
\* on the provider with the winery as query text and is not turned away for
\* insufficient details.
C9_Claimed ==
    \A i \in Tasks :
        (/\ ~items[i].nullish
         /\ items[i].item_type = "wine"
         /\ items[i].collector_details.present
         /\ ~TruthyStr(items[i].collector_details.wine_name)
         /\ TruthyStr(items[i].collector_details.winery)
         /\ task[i].pc # "idle") =>
            /\ task[i].calls >= 1
            /\ task[i].query.text = items[i].collector_details.winery
            /\ Returned(i) =>
                   task[i].result.collector_warning #
                       "Insufficient wine details for enrichment"

\* C10 as claimed: when the wine lookup fails with a transport error or a
\* non-OK status the item has collector_data = null and a collector_warning
\* carrying the error, different from the warning of an empty result set.
C10_Claimed ==
    \A i \in Tasks :
        (/\ IsNamedWine(i)
         /\ script[i].search \in {"throw", "timeout", "httperr"}
         /\ Returned(i)) =>
            /\ task[i].result.collector_data = NullData
            /\ task[i].result.collector_warning # "Wine not found on Vivino"
            /\ script[i].search \in {"throw", "timeout"} =>
                   task[i].result.collector_warning =
                       "Vivino API error: " \o ErrorMessage(script[i].search)

-----------------------------------------------------------------------------
(* Key sets of collector_data *)

\* item i was looked up on its provider and the search returned a match
Matched(i, strat) ==
    /\ Returned(i)
    /\ task[i].strategy = strat
    /\ task[i].calls >= 1
    /\ script[i].search = "match"

\* the keys of a vinyl record built from detail lookup and successful pricing
FullVinylKeys == ReleaseKeys \cup NullPricingKeys \cup {"discogs_num_for_sale"}

\* C11 as claimed: whenever a provider returns a match, collector_data is
\* non-null and has the same key set on every success path: for vinyl whether
\* it was built from the detail lookup, from the search-result fallback, or
\* with the pricing lookup failing or succeeding.
C11_Claimed ==
    \A i \in Tasks :
        /\ Matched(i, "wine") =>
               /\ task[i].result.collector_data.kind = "wine"
               /\ task[i].result.collector_data.keys = WineDataKeys
        /\ Matched(i, "vinyl") =>
               /\ task[i].result.collector_data.kind = "vinyl"
               /\ task[i].result.collector_data.keys = FullVinylKeys

\* C11 as amended: whenever a provider returns a match, collector_data is
\* non-null; a wine record always has the thirteen keys of wineData; a vinyl
\* record has the fourteen keys of the search-result shape on every path, and
\* beyond them the detail keys only when the detail lookup succeeded, with
\* discogs_num_for_sale only when the pricing lookup succeeded too.
C11_KeysPerPath ==
    \A i \in Tasks :
        /\ Matched(i, "wine") =>
               /\ task[i].result.collector_data.kind = "wine"
               /\ task[i].result.collector_data.keys = WineDataKeys
        /\ Matched(i, "vinyl") =>
               /\ task[i].result.collector_data.kind = "vinyl"
               /\ SearchResultKeys \subseteq task[i].result.collector_data.keys
               /\ task[i].result.collector_data.keys =
                      IF script[i].detail # "ok" THEN SearchResultKeys
                      ELSE IF script[i].pricing # "ok"
                      THEN ReleaseKeys \cup NullPricingKeys
                      ELSE FullVinylKeys

\* a vinyl item whose detail lookup failed came back with the search-result
\* record, which has no discogs_rating key
C11_Witness ==
    \E i \in Tasks :
        /\ Matched(i, "vinyl")
        /\ script[i].detail # "ok"
        /\ task[i].result.collector_data.kind = "vinyl"
        /\ "discogs_rating" \notin task[i].result.collector_data.keys
        /\ "discogs_avg_price" \in task[i].result.collector_data.keys

-----------------------------------------------------------------------------
(* Timeouts *)

\* C12 as claimed: each provider call is abandoned after its own timeout of 5
\* seconds even when the provider never answers, so no task is ever found
\* awaiting a provider for longer than that.
C12_Claimed ==
    \A i \in Tasks : waited[i] <= TimeoutSeconds

-----------------------------------------------------------------------------
(* Token accounting *)

\* the count the provider reports under one of two names, 0 when under none
Reported(current, legacy) ==
    IF current # NullNum THEN current
    ELSE IF legacy # NullNum THEN legacy ELSE 0

\* the usage object does not contradict itself: a count reported under both
\* names is the same under both, and a reported total is not smaller than
\* the two counts together
ConsistentUsage(u) ==
    /\ (u.input_tokens # NullNum /\ u.prompt_tokens # NullNum) =>
           u.input_tokens = u.prompt_tokens
    /\ (u.output_tokens # NullNum /\ u.completion_tokens # NullNum) =>
           u.output_tokens = u.completion_tokens
    /\ u.total_tokens # NullNum =>
           u.total_tokens >= Reported(u.input_tokens, u.prompt_tokens)
                             + Reported(u.output_tokens, u.completion_tokens)

C14_WarningAboveThreshold ==
    stage = "sent" =>
        /\ res.status = 200
        /\ res.token_usage.total_tokens > HighUsage =>
               res.warnings = <<HighUsageWarning(res.token_usage.total_tokens)>>
        /\ res.token_usage.total_tokens <= HighUsage => res.warnings = <<>>
        /\ response.usage = NoUsage =>
               res.token_usage.total_tokens = 0 /\ res.warnings = <<>>

\* a successful response to a total of 15001 tokens, derived from two counts,
\* carries the one warning
C14_Witness ==
    /\ stage = "sent"
    /\ res.status = 200
    /\ response.usage.total_tokens = NullNum
    /\ res.token_usage.total_tokens = 15001
    /\ Len(res.warnings) = 1

-----------------------------------------------------------------------------
(* Tag resolution *)

\* the tags the handler passes to mergeTagsWithSystem
UserTags == CoerceTags(req.tags).elems

\* the merge has been done and has returned
Merged ==
    /\ stage \in {"calling", "parsed", "sent"}
    /\ \A k \in 1..Len(UserTags) : IsString(UserTags[k])

SameIgnoringCase(a, b) == ToLowerCase(a) = ToLowerCase(b)

\* the positions of the caller tags that repeat no earlier tag, of the system
\* vocabulary or of the caller, ignoring case
FirstSeen ==
    {k \in 1..Len(UserTags) :
        /\ \A j \in 1..Len(getAllSystemTags) :
               ~SameIgnoringCase(getAllSystemTags[j], UserTags[k])
        /\ \A j \in 1..(k - 1) : ~SameIgnoringCase(UserTags[j], UserTags[k])}

\* the caller tags at the positions of S, in the caller's order
TagsAt(S) ==
    [n \in 1..Cardinality(S) |->
         UserTags[CHOOSE k \in S : Cardinality({j \in S : j <= k}) = n]]

\* C15: for every sequence of caller tags, mergeTagsWithSystem returns the
\* system vocabulary in its fixed order followed by those caller tags that are
\* not case-insensitive duplicates of an earlier tag, each kept in its
\* first-seen casing and in the caller's relative order; no two elements of
\* the result are equal ignoring case.
C15_SystemFirstThenFirstSeen ==
    Merged =>
        /\ allTags = getAllSystemTags \o TagsAt(FirstSeen)
        /\ \A j, k \in 1..Len(allTags) :
               SameIgnoringCase(allTags[j], allTags[k]) => j = k

\* the tags Wine, Books, BOOKS resolve to the system vocabulary and Books
C15_Witness ==
    /\ Merged
    /\ UserTags = <<"Wine", "Books", "BOOKS">>
    /\ allTags = getAllSystemTags \o <<"Books">>

\* C16: tag resolution is idempotent: for every sequence t of string tags,
\* mergeTagsWithSystem(mergeTagsWithSystem(t)) equals mergeTagsWithSystem(t),
\* element for element and in the same order; in particular this holds for
\* the empty sequence.
C16_Idempotent ==
    Merged =>
        /\ ~mergeTagsWithSystem(TagsValue("array", allTags)).threw
        /\ mergeTagsWithSystem(TagsValue("array", allTags)).value = allTags

\* the merge of a sequence with a tag of the vocabulary in another casing and
\* a new tag has returned
C16_Witness ==
    /\ Merged
    /\ UserTags = <<"jazz", "WINE">>
    /\ allTags = getAllSystemTags \o <<"jazz">>
    /\ mergeTagsWithSystem(TagsValue("array", allTags)).value = allTags

\* C17 as claimed: tag resolution has no failure mode: a tags value that is no
\* sequence is treated as the empty sequence and resolves to the system
\* vocabulary, and no tags value a caller supplies makes the resolution throw.
C17_Claimed ==
    /\ (stage \in {"calling", "parsed"} /\ req.tags.kind # "array") =>
           allTags = getAllSystemTags
    /\ stage = "sent" => res.status = 200

-----------------------------------------------------------------------------
(* Decoding of the model output *)

\* prose without square brackets
IsPlain(prose) == \A k \in 1..Len(prose) : prose[k] \notin {"[", "]"}

\* the items of the array b as the array mode returns them
ArrayItems(b) ==
    JsonArray([k \in 1..Len(b) |->
                   JsonItem(WithBbox(ItemOf(b[k]),
                                     IF b[k] = "lamp with bbox"
                                     THEN "box inside the image" ELSE NULL))])

\* the output is a well-formed array in code fences, in array mode
IsFencedArray ==
    /\ req.mode = "array"
    /\ response.shape = "array"
    /\ response.open # <<>>
    /\ response.close # <<>>

\* C18 as claimed: in array mode, for a well-formed JSON array of N item
\* objects wrapped in code fences and surrounded by leading and/or trailing
\* prose, the parser returns exactly the N items of the embedded array, the
\* same result as parsing the bare array text, and ignores the prose.
C18_Claimed ==
    (IsFencedArray /\ stage = "sent") =>
        /\ res.status = 200
        /\ res.items = ArrayItems(response.bodies)

\* C18 as amended: the same for prose that contains no square bracket: the
\* N items of the embedded array are returned, the same result as parsing the
\* bare array text.
C18_PlainProseIgnored ==
    (/\ IsFencedArray
     /\ IsPlain(response.lead)
     /\ IsPlain(response.trail)
     /\ stage = "sent") =>
        /\ res.status = 200
        /\ res.items = ArrayItems(response.bodies)
        /\ Len(res.items.elems) = Len(response.bodies)
        /\ res.items =
               VisionReturn("array",
                   ModelResponse(ArrayText(response.bodies), NoUsage)).value.items

\* two items in fences between leading and trailing prose have been returned
C18_Witness ==
    /\ IsFencedArray
    /\ response.bodies = <<"lamp", "lamp with bbox">>
    /\ response.lead = <<Word, Ws>>
    /\ response.trail = <<Ws, Word>>
    /\ stage = "sent"
    /\ res.status = 200
    /\ Len(res.items.elems) = 2

\* what JSON.parse is given: the bracket match if there is one, else all of
\* the cleaned text
Extracted ==
    LET contentClean == Clean(response.output_text)
        jsonMatch == Match(contentClean, OpenBracket(req.mode), CloseBracket(req.mode))
    IN IF jsonMatch # <<>> THEN jsonMatch ELSE contentClean

\* the value is of the shape the mode expects
ExpectedShape(v) ==
    CASE req.mode = "array" ->
             IsArray(v) /\ \A k \in 1..Len(v.elems) : IsItemObject(v.elems[k])
      [] req.mode = "items" ->
             v.t = "object" /\ v.key = "items:" /\ IsArray(v.value)
      [] req.mode = "single" ->
             v.t = "object" /\ v.key = "item:" /\ IsItemObject(v.value)

\* the model output decodes into the expected shape, if need be after the
\* bracket extraction
Decodable == JSONparse(Extracted).ok /\ ExpectedShape(JSONparse(Extracted).value)

\* C19 as claimed: in every request mode, if the model output cannot be decoded
\* into the expected shape, even after the bracket-extraction fallback, the
\* request fails with a 500 response and returns no items; it never succeeds
\* with a silently substituted result.
C19_Claimed ==
    (stage = "sent" /\ ~Decodable) => res.status = 500

\* C19 as amended: output that is no JSON text, even after the bracket
\* extraction, fails the request with 500 in every mode, and so does, in
\* single-item mode, a JSON value without an item member; in multi-item mode
\* a JSON value without an array-valued items member is answered with 200 and
\* an empty items list.
C19_OnlySyntaxAndMissingItemFail ==
    stage = "sent" =>
        /\ ~JSONparse(Extracted).ok =>
               res.status = 500 /\ DOMAIN res = {"status", "error", "processing_time", "details"}
        /\ (/\ JSONparse(Extracted).ok
            /\ req.mode = "single"
            /\ ~HasItem(JSONparse(Extracted).value)) =>
               res.status = 500 /\ DOMAIN res = {"status", "error", "processing_time", "details"}
        /\ (/\ JSONparse(Extracted).ok
            /\ req.mode = "items"
            /\ ~ExpectedShape(JSONparse(Extracted).value)) =>
               res.status = 200 /\ res.items = JsonArray(<<>>)

\* a multi-item request answered with a bare item object has been answered
\* with 200 and no items
C19_Witness ==
    /\ stage = "sent"
    /\ req.mode = "items"
    /\ response.shape = "object"
    /\ response.bodies = <<"laptop">>
    /\ ~Decodable
    /\ res.status = 200
    /\ res.items = JsonArray(<<>>)

\* the item object has every key the prompt requires
IsWellFormed(body) == body = "laptop"

\* the multi-item mode has decoded an object with an items array
DecodedItems ==
    /\ req.mode = "items"
    /\ response.shape = "items"
    /\ stage = "sent"

\* C20 as claimed: in multi-item mode, an item of the decoded array that lacks
\* a required key is dropped from the result while every well-formed item of
\* the same array is kept, in order.
C20_Claimed ==
    DecodedItems =>
        /\ res.status = 200
        /\ res.items =
               JsonArray([k \in 1..Len(SelectSeq(response.bodies, IsWellFormed)) |->
                   JsonItem(NoEnrichment(
                       ItemOf(SelectSeq(response.bodies, IsWellFormed)[k])))])

\* C20 as amended: in multi-item mode every item of the decoded array is
\* returned, in order, whether or not it has the required keys; none is
\* dropped.
C20_ItemsPassThrough ==
    DecodedItems =>
        /\ res.status = 200
        /\ Len(res.items.elems) = Len(response.bodies)
        /\ \A k \in 1..Len(response.bodies) :
               res.items.elems[k] =
                   JsonItem(NoEnrichment(ItemOf(response.bodies[k])))

\* an item without name has been returned in front of a well-formed one
C20_Witness ==
    /\ DecodedItems
    /\ response.bodies = <<"laptop without name", "laptop">>
    /\ res.status = 200
    /\ Len(res.items.elems) = 2
    /\ res.items.elems[1].item.name = ABSENT

-----------------------------------------------------------------------------
(* Provider calls per item *)

\* the requests task i has issued when it is where it is: none before the
\* first fetch, one while the search is pending, two while the release lookup
\* is pending, three while the pricing lookup is pending
CallsIssuedAt(i) ==
    CASE task[i].pc = "search" -> 1
      [] task[i].pc = "detail" -> 2
      [] task[i].pc = "pricing" -> 3
      [] OTHER -> task[i].calls

\* the requests a settled task has issued, read off what the providers
\* answered: the search always, the release lookup after a match, the pricing
\* lookup after a release that was found
CallsOfSettled(i) ==
    IF task[i].query = NoRequest THEN 0
    ELSE IF task[i].strategy = "wine" \/ script[i].search # "match" THEN 1
    ELSE IF script[i].detail # "ok" THEN 2
    ELSE 3

\* C23 as claimed: the number of enrichment-provider calls issued for any
\* single item is at most two, and zero for an item that is not typed wine or
\* vinyl, on every path.
C23_Claimed ==
    \A i \in Tasks :
        /\ task[i].calls <= 2
        /\ Route(items[i]) = "none" => task[i].calls = 0

\* C23 as amended: an item that is not typed wine or vinyl causes no provider
\* call, a wine item at most one (the Vivino search) and a vinyl item at most
\* three (Discogs search, release lookup, pricing lookup); each of them is
\* issued at most once, and a failed call is followed by no further call.
C23_AtMostOncePerEndpoint ==
    \A i \in Tasks :
        /\ task[i].calls = CallsIssuedAt(i)
        /\ Route(items[i]) = "none" => task[i].calls = 0
        /\ task[i].strategy = "wine" => task[i].calls <= 1
        /\ task[i].strategy = "vinyl" => task[i].calls <= 3
        /\ Returned(i) => task[i].calls = CallsOfSettled(i)

\* a vinyl item has been returned after all three Discogs requests
C23_Witness ==
    \E i \in Tasks :
        /\ Returned(i)
        /\ task[i].strategy = "vinyl"
        /\ script[i].search = "match"
        /\ script[i].detail = "ok"
        /\ task[i].calls = 3

-----------------------------------------------------------------------------
(* Two-tier degradation of searchVinyl *)

\* C27: with Discogs credentials configured, searchVinyl returns a record
\* whenever the search returned a result: the record formatted from the top
\* search result when the release lookup fails (non-OK status or exception),
\* and the detailed record with null prices when only the pricing lookup
\* fails.
C27_FallsBackToSearchResult ==
    \A i \in Tasks :
        Matched(i, "vinyl") =>
            /\ discogsCreds
            /\ task[i].result.collector_data.kind = "vinyl"
            /\ task[i].result.collector_data.discogs_id = task[i].query.text
            /\ script[i].detail # "ok" =>
                   /\ task[i].result.collector_data =
                          FormatSearchResult(
                              [kind |-> "top", id |-> task[i].query.text,
                               year |-> script[i].year])
                   /\ task[i].result.collector_data.shape = "search"
            /\ script[i].detail = "ok" =>
                   /\ task[i].result.collector_data.shape = "detail"
                   /\ ReleaseKeys \subseteq task[i].result.collector_data.keys
                   /\ NullPricingKeys \subseteq task[i].result.collector_data.keys
                   /\ script[i].pricing # "ok" =>
                          task[i].result.collector_data.discogs_avg_price = NullNum

\* a release lookup that threw has been answered with the record formatted
\* from the top search result
C27_Witness ==
    \E i \in Tasks :
        /\ Matched(i, "vinyl")
        /\ script[i].detail = "throw"
        /\ task[i].calls = 2
        /\ task[i].result.collector_data.shape = "search"
        /\ task[i].result.collector_data.discogs_id = task[i].query.text

-----------------------------------------------------------------------------
(* The handlers: validation, errors, deletion, statistics, order of steps *)

\* the body lacks image_url or user_id (missing, null or empty)
LacksField == ~TruthyStr(req.image_url) \/ ~TruthyStr(req.user_id)

\* user_id is not the uid of the verified token
NotTheCaller == req.uid # req.user_id

\* the requests enrichment has issued to the providers
ProviderCalls == {i \in Tasks : task[i].calls > 0}

\* C21: a request of /process or /process-single whose body lacks image_url
\* or user_id, or whose user_id is not the uid of the authenticated token, is
\* rejected with 400 or 403, and no image download, vision-model call,
\* enrichment-provider call or image deletion is performed for it.
C21_RejectedBeforeAnyCall ==
    (LacksField \/ NotTheCaller) =>
        /\ stage \in {"arrived", "sent"}
        /\ io.downloads = 0
        /\ io.visionCalls = 0
        /\ io.deletions = 0
        /\ batch = "uncalled"
        /\ ProviderCalls = {}
        /\ stage = "sent" =>
               /\ io.responses = 1
               /\ res = IF LacksField THEN MissingFields ELSE IdMismatch

\* a request with another user's id has been answered with 403 and nothing
\* was downloaded
C21_Witness ==
    /\ req.user_id = "bob"
    /\ TruthyStr(req.image_url)
    /\ stage = "sent"
    /\ res.status = 403
    /\ io.downloads = 0

\* the response is a fatal error response
IsFatal == stage = "sent" /\ res.status >= 400

\* C22 as claimed: every fatal error response of the two handlers, validation
\* errors included, carries processing_time.
C22_Claimed ==
    IsFatal => "processing_time" \in DOMAIN res

\* C22 as amended: every 500 response (download failure, vision-model
\* failure, parse failure) carries processing_time, the time elapsed since
\* the entry of the handler; the 400 and 403 responses of the validation
\* carry the error text only.
C22_TimedUnlessValidation ==
    IsFatal =>
        /\ res.status = 500 =>
               /\ "processing_time" \in DOMAIN res
               /\ res.processing_time = io.now - 1 - io.startTime
               /\ ~LacksField /\ ~NotTheCaller
        /\ res.status # 500 =>
               /\ res.status \in {400, 403}
               /\ DOMAIN res = {"status", "error"}
               /\ LacksField \/ NotTheCaller

\* a failed download has been answered with 500 and the elapsed time
C22_Witness ==
    /\ stage = "sent"
    /\ io.fetched = "not found"
    /\ res.status = 500
    /\ "processing_time" \in DOMAIN res

\* the deletion of the image was attempted and the response is out
RespondedAfterDeletion == stage = "sent" /\ io.deletions = 1

\* C24: when deleting the source image fails after the items were processed,
\* the request still succeeds: the response is the 200 payload with the
\* enriched items, token_usage and warnings it has when the deletion
\* succeeds, and image_deleted = false.
C24_DeletionFailureNotRaised ==
    RespondedAfterDeletion =>
        /\ res.status = 200
        /\ res.image_deleted = io.deleteSuccess
        /\ req.mode = "items" => res.items = PromiseAllValue(task)
        /\ req.mode = "single" => res.item = task[1].result
        /\ res.token_usage = TokenUsage(response.usage)
        /\ res.warnings = Warnings(TokenUsage(response.usage).total_tokens)
        /\ res.user_id = req.user_id

\* a failed deletion has been answered with 200, two items and a warning
C24_Witness ==
    /\ RespondedAfterDeletion
    /\ ~io.deleteSuccess
    /\ res.status = 200
    /\ res.image_deleted = FALSE
    /\ req.mode = "items"
    /\ Len(res.items) = 2
    /\ Len(res.warnings) = 1

\* the items of a response with the given collector_category
OfCategory(its, category) ==
    {k \in 1..Len(its) : its[k].collector_category = category}

\* /process has answered with items and their statistics
AnsweredWithStats ==
    /\ stage = "sent"
    /\ res.status = 200
    /\ req.mode = "items"

\* C25: getCollectorStats leaves the items as they are and returns
\* total_items = number of items = wine_items + vinyl_items + general_items
\* and collector_items = wine_items + vinyl_items, where wine_items and
\* vinyl_items count the items of that collector_category; for a non-empty
\* sequence enrichment_failures is the number of items with a
\* collector_warning.
C25_StatsAddUp ==
    AnsweredWithStats =>
        /\ res.items = PromiseAllValue(task)
        /\ res.collector_stats.total_items = Len(res.items)
        /\ res.collector_stats.total_items =
               res.collector_stats.wine_items + res.collector_stats.vinyl_items
               + res.collector_stats.general_items
        /\ res.collector_stats.collector_items =
               res.collector_stats.wine_items + res.collector_stats.vinyl_items
        /\ res.collector_stats.wine_items =
               Cardinality(OfCategory(res.items, "wine"))
        /\ res.collector_stats.vinyl_items =
               Cardinality(OfCategory(res.items, "vinyl"))
        /\ Len(res.items) > 0 =>
               res.collector_stats.enrichment_failures =
                   Cardinality({k \in 1..Len(res.items) :
                                    res.items[k].collector_warning # ABSENT})

\* a wine that was not found and a chair have been counted
C25_Witness ==
    /\ AnsweredWithStats
    /\ Len(res.items) = 2
    /\ res.collector_stats.wine_items = 1
    /\ res.collector_stats.general_items = 1
    /\ res.collector_stats.enrichment_failures = 1

\* the JSON numbers that are an integer >= 1, and those within [0, 1]
IsPositiveInteger(quantity) == quantity \in {"1", "3"}
InUnitInterval(accuracy) == accuracy \in {"0", "0.9", "1"}

\* the items of a 200 response
ReturnedItems ==
    IF stage = "sent" /\ res.status = 200
    THEN IF req.mode = "single" THEN <<res.item>> ELSE res.items
    ELSE <<>>

\* C26 as claimed: every item of a successful response has a quantity that
\* is an integer >= 1 (or null) and an accuracy within [0, 1] (or null),
\* whatever the model output contained.
C26_Claimed ==
    \A k \in 1..Len(ReturnedItems) :
        /\ ReturnedItems[k].quantity = NULL
               \/ IsPositiveInteger(ReturnedItems[k].quantity)
        /\ ReturnedItems[k].accuracy = NULL
               \/ InUnitInterval(ReturnedItems[k].accuracy)

\* the vision call, parsing included, has failed
VisionFailed ==
    /\ io.visionCalls = 1
    /\ stage = "sent"
    /\ batch = "uncalled"

\* C30: the steps run in the order download, vision-model call, enrichment,
\* image deletion, response: the image is deleted only after the model call
\* and every item's enrichment have completed, and when the download, the
\* model call or the parsing fails, no enrichment-provider call is made, no
\* deletion is attempted and exactly one response, a 500, is sent.
C30_StepsInOrder ==
    /\ io.downloads <= 1 /\ io.visionCalls <= 1
    /\ io.deletions <= 1 /\ io.responses <= 1
    /\ io.visionCalls = 1 => io.downloads = 1 /\ io.fetched = "ok"
    /\ batch # "uncalled" =>
           /\ io.visionCalls = 1
           /\ ~VisionReturn(req.mode, response).threw
    /\ ProviderCalls # {} => batch # "uncalled"
    /\ io.deletions = 1 =>
           /\ batch = "returned"
           /\ \A i \in Tasks : Returned(i)
    /\ io.responses = 1 <=> stage = "sent"
    /\ (stage = "sent" /\ res.status = 200) => io.deletions = 1
    /\ io.fetched \notin {"nothing", "ok"} =>
           /\ stage = "sent" /\ res.status = 500
           /\ io.visionCalls = 0
    /\ VisionFailed => res.status = 500
    /\ (stage = "sent" /\ res.status = 500) =>
           /\ batch = "uncalled"
           /\ ProviderCalls = {}
           /\ io.deletions = 0

\* the image has been deleted after three Discogs requests for a record were
\* answered, and the response is still to be sent
C30_Witness ==
    /\ stage = "deleted"
    /\ io.deletions = 1
    /\ io.responses = 0
    /\ batch = "returned"
    /\ \E i \in Tasks : task[i].calls = 3

-----------------------------------------------------------------------------
(* Bounding boxes *)

\* the bbox is an object whose four members coerce to finite numbers
Coerces(b) ==
    /\ b.t = "object"
    /\ \A k \in {"x", "y", "width", "height"} : b[k].t \in {"number", "null"}

\* a box of whole numbers inside an image of the given width and height
IsInside(b, imageWidth, imageHeight) ==
    /\ b.t = "object"
    /\ \A k \in {"x", "y", "width", "height"} :
           b[k].t = "number" /\ ~b[k].half
    /\ 0 <= b.x.n /\ b.x.n <= imageWidth - 1
    /\ 0 <= b.y.n /\ b.y.n <= imageHeight - 1
    /\ b.width.n >= 1 /\ b.height.n >= 1
    /\ b.x.n + b.width.n <= imageWidth
    /\ b.y.n + b.height.n <= imageHeight

\* every item is kept with its other fields, and its bbox is null or inside
\* the image
BoxesNormalized ==
    stage # "decoded" =>
        /\ Len(result.items.elems) = Len(response.items.elems)
        /\ \A k \in 1..Len(result.items.elems) :
               /\ result.items.elems[k].name = response.items.elems[k].name
               /\ DOMAIN result.items.elems[k] = DOMAIN response.items.elems[k]
               /\ IF Coerces(response.items.elems[k].bbox)
                  THEN IsInside(result.items.elems[k].bbox,
                                req.imageWidth, req.imageHeight)
                  ELSE result.items.elems[k].bbox = Null

\* C28: for image width and height >= 1, normalizeBoundingBoxes keeps every
\* item and its other fields, and gives each item bbox = null (bbox missing,
\* no object, or with a member that does not coerce to a finite number) or a
\* bbox of integers with 0 <= x <= W-1, 0 <= y <= H-1, width >= 1,
\* height >= 1, x + width <= W and y + height <= H; applying it a second
\* time changes nothing.
C28_BoxesInsideImage ==
    /\ []BoxesNormalized
    /\ [][stage = "normalized" => result' = result]_vars

\* a box that began left of the image and was wider than it has been cut to
\* the whole width, twice
C28_Witness ==
    /\ stage = "normalized again"
    /\ req.imageWidth = 2
    /\ response.items.elems[1].bbox.t = "object"
    /\ response.items.elems[1].bbox.x = Num(-1, FALSE)
    /\ response.items.elems[1].bbox.width = Num(3, FALSE)
    /\ result.items.elems[1].bbox.t = "object"
    /\ result.items.elems[1].bbox.x = Num(0, FALSE)
    /\ result.items.elems[1].bbox.width = Num(2, FALSE)

-----------------------------------------------------------------------------
(* The voice-assistant webhook *)

\* the bearer token is missing or invalid
NoValidToken == req.token \in {"missing", "invalid"}

\* the request names an item
NamesAnItem == TruthyStr(req.itemName) /\ req.itemName # NUMBER

\* the parent pakket of the item lists the caller's uid in uids or has an
\* entry for it in memberRoles
CallerIsMember(match) ==
    /\ TruthyStr(match.parentId)
    /\ PakketDoc(match.parentId).exists
    /\ \/ /\ PakketDoc(match.parentId).uids.isArray
          /\ \E k \in 1..Len(PakketDoc(match.parentId).uids.elems) :
                 PakketDoc(match.parentId).uids.elems[k] = req.token
       \/ req.token \in DOMAIN PakketDoc(match.parentId).memberRoles

\* the matches of the caller's own pakkets, as name and location
OwnItems ==
    {[name |-> EnrichedMatch(response.matches[k], req.itemName, req.token).name,
      location |->
          EnrichedMatch(response.matches[k], req.itemName, req.token).location] :
         k \in {j \in 1..Len(response.matches) :
                    CallerIsMember(response.matches[j])}}

\* the response names no item and no location
DisclosesNothing == res.list = <<>> /\ res.template \notin {"found", "multiple_matches"}

\* every item the response mentions is one of the caller's pakkets, a list
\* has at most three of them, and a caller none of whose matched items is in
\* a pakket of theirs gets the no-access text
OnlyOwnItems ==
    /\ \A k \in 1..Len(res.list) : ~NoValidToken /\ res.list[k] \in OwnItems
    /\ Len(res.list) <= 3
    /\ res.template = "found" => Len(res.list) = 1
    /\ res.template \notin {"found", "multiple_matches"} => res.list = <<>>
    /\ (res.status = 200 /\ ~NoValidToken /\ NamesAnItem
        /\ Len(response.matches) > 0 /\ OwnItems = {}) =>
           res.template = "no_access"

\* C29 as claimed: item names and locations are mentioned only for items of
\* pakkets the caller is a member of, a multiple-matches response lists at
\* most three items, and whenever the bearer token is missing or invalid the
\* response is the no-access text.
C29_Claimed ==
    stage = "sent" =>
        /\ OnlyOwnItems
        /\ NoValidToken => res.template = "no_access" /\ DisclosesNothing

\* C29 as amended: item names and locations are mentioned only for items of
\* pakkets the caller is a member of, and a multiple-matches response lists
\* at most three items; a request that names an item and comes without a
\* valid bearer token, or whose matched items are all outside the caller's
\* pakkets, gets the no-access text; a request that names no item gets the
\* question for the item, with or without a token; neither discloses an item
\* name or location.
C29_NoAccessOnceItemNamed ==
    stage = "sent" =>
        /\ OnlyOwnItems
        /\ NoValidToken => DisclosesNothing
        /\ (NoValidToken /\ NamesAnItem) => res.template = "no_access"
        /\ ~NamesAnItem => res.template = "missing_item"

\* four of the caller's items matched and three of them were listed
C29_Witness ==
    /\ stage = "sent"
    /\ req.token = "alice"
    /\ Len(response.matches) = 4
    /\ \A k \in 1..4 : CallerIsMember(response.matches[k])
    /\ res.template = "multiple_matches"
    /\ Len(res.list) = 3

====
